---- MODULE Spec2Model ----
(***************************************************************************)
(* Model of `copilot env init` (internal/pkg/cli/env_init.go) and of the   *)
(* environment record store (package config).                              *)
(*                                                                         *)
(* One provisioning attempt is one run of initEnvOpts.Execute.  Every call *)
(* of an external collaborator (record store, identity, stack-set          *)
(* deployer, S3 uploader, IAM, CloudFormation) is one step of the attempt; *)
(* what the collaborator answers is a nondeterministic choice restricted   *)
(* only by the state it answers from (a stack that exists cannot be        *)
(* created, a role that is absent has no tags).                            *)
(***************************************************************************)
EXTENDS Integers, Sequences, FiniteSets, TLC

\* ------------------------------------------------------------------------
\* Bounds of the model.
\* ------------------------------------------------------------------------
\* Number of distinct deployment failures other than "stack already exists".
NumDeployFailures == 1
\* Number of environment names the callers of the record store use.
NumStoreEnvNames == 3
\* Most entries of a list of subnets or availability zones.
MaxItems == 2
\* Most fragments a base document includes.
MaxRefs == 2

\* ------------------------------------------------------------------------
\* Values.
\* ------------------------------------------------------------------------
AttemptIds == {1, 2}

AppNames == {"demo", "ghost"}
EnvNames == {"test"}
Accounts == {"1111", "2222"}
AppAccount == "1111"
envRegion == "us-west-2"

NoErr == <<>>
NoApp == [Name |-> "", AccountID |-> "", Domain |-> ""]
NoEnv == [App |-> "", Name |-> ""]
NoURLs == "none"
NoInput == [nil |-> TRUE]
NoRole == <<>>
UploadedURLs == "urls"

ErrStackAlreadyExists == <<"ErrStackAlreadyExists">>
DeployFailureNames == <<"ErrDeployFailed1", "ErrDeployFailed2", "ErrDeployFailed3">>
DeployFailures == {<<DeployFailureNames[i]>> : i \in 1..NumDeployFailures}

\* fmt.Errorf("prefix: %w", err)
Wrap(prefix, e) == <<prefix>> \o e

\* stack.NameForEnv(app, env): "<app>-<env>"
NameForEnv(app, env) == <<app, env>>

\* The two role names of tryDeletingEnvRoles, in the order of the slice.
roleNames(app, env) ==
    << <<NameForEnv(app, env), "CFNExecutionRole">>,
       <<NameForEnv(app, env), "EnvManagerRole">> >>

\* deploy.EnvTagKey, the "copilot-environment" tag; its value is the name of
\* the environment the role was created for.
EnvTagKey == "copilot-environment"
OtherTagKey == "team"

\* A role of IAM: absent, or present with its tags (a map key -> value, as the
\* set of its pairs).
RoleAbsent == [exists |-> FALSE, tags |-> {}]
RoleWith(tags) == [exists |-> TRUE, tags |-> tags]
\* The role as the environment stack of `en` creates it.
RoleOf(en) == RoleWith({<<EnvTagKey, en>>})
\* The states a role of a given name can be found in: absent, without the
\* tag, created for this environment, or carrying the tag of another one.
RoleStates(en) == {RoleAbsent, RoleWith({<<OtherTagKey, "x">>}), RoleOf(en),
                   RoleWith({<<EnvTagKey, "other">>})}

StackNames == {NameForEnv(ap, en) : ap \in AppNames, en \in EnvNames}
RoleNames == UNION {{roleNames(ap, en)[1], roleNames(ap, en)[2]} :
                        ap \in AppNames, en \in EnvNames}
EnvKeys == AppNames \X EnvNames

emptyImportVPC == [ID |-> "", PublicSubnetIDs |-> <<>>, PrivateSubnetIDs |-> <<>>]
emptyAdjustVPC == [CIDR |-> "", AZs |-> <<>>, PublicSubnetCIDRs |-> <<>>,
                   PrivateSubnetCIDRs |-> <<>>]

\* importVPCVars.isSet
importVPCIsSet(v) ==
    IF v.ID # "" THEN TRUE
    ELSE Len(v.PublicSubnetIDs) > 0 \/ Len(v.PrivateSubnetIDs) > 0

\* adjustVPCVars.isSet
adjustVPCIsSet(v) ==
    IF v.CIDR # "" THEN TRUE
    ELSE \E arr \in {v.AZs, v.PublicSubnetCIDRs, v.PrivateSubnetCIDRs} : Len(arr) # 0

VARIABLES
    \* ---- external collaborators ----
    storeApps,     \* record store: application name -> application (NoApp if absent)
    storeEnvs,     \* record store: (app, env) -> environment record (NoEnv if absent)
    cfnStacks,     \* CloudFormation: stack name -> the stack exists
    iamRoles,      \* IAM: role name -> [exists, tags] of the role
    \* ---- one initEnvOpts per attempt ----
    o,             \* initEnvVars of the attempt
    sessAccount,   \* the account of the attempt's environment session
    pc,            \* position of the attempt in Execute
    app,           \* Execute: app
    envCaller,     \* Execute: envCaller.Account
    urls,          \* Execute: urls
    deployInput,   \* deployEnv: deployEnvInput as handed to the deployer
    deployErr,     \* deployEnv: err of DeployAndRenderEnvironment
    cleanup,       \* tryDeletingEnvRoles: [phase, idx] of the running loop
    env,           \* Execute: env
    err,           \* the error Execute returned (NoErr: nil)
    calls,         \* history: the external calls of the attempt, in order
    slrResult,     \* history: what CreateECSServiceLinkedRole answered
    \* ---- a caller of the record store ----
    storeCall,     \* the last call of a Store method: its arguments, the answers
                   \* of SSM it met, what it returned and the parameters before it
    \* ---- one invocation of the command before Execute ----
    cmd,           \* Validate and Ask: [pc, vars, nonNil, sess, err, log, lookups]
    \* ---- one rendering of a workload template ----
    render         \* parseWkld and envControllerParameters: input and result

vars == <<storeApps, storeEnvs, cfnStacks, iamRoles, o, sessAccount, pc, app,
          envCaller, urls, deployInput, deployErr, cleanup, env, err, calls,
          slrResult, storeCall, cmd, render>>

extVars == <<storeApps, storeEnvs, cfnStacks, iamRoles>>
optVars == <<o, sessAccount>>
attemptVars == <<pc, app, envCaller, urls, deployInput, deployErr, cleanup, env,
                 err, calls, slrResult>>
coreVars == <<extVars, optVars, attemptVars, storeCall>>


\* ------------------------------------------------------------------------
\* Pure helpers of env_init.go and package config.
\* ------------------------------------------------------------------------
NoVPC == [nil |-> TRUE]
NoCustomConfig == [nil |-> TRUE]

\* initEnvOpts.importVPCConfig
importVPCConfig(v) ==
    IF v.defaultConfig \/ ~importVPCIsSet(v.importVPC) THEN NoVPC
    ELSE [ID |-> v.importVPC.ID,
          PrivateSubnetIDs |-> v.importVPC.PrivateSubnetIDs,
          PublicSubnetIDs |-> v.importVPC.PublicSubnetIDs]

\* initEnvOpts.adjustVPCConfig
adjustVPCConfig(v) ==
    IF v.defaultConfig \/ ~adjustVPCIsSet(v.adjustVPC) THEN NoVPC
    ELSE [CIDR |-> v.adjustVPC.CIDR,
          AZs |-> v.adjustVPC.AZs,
          PrivateSubnetCIDRs |-> v.adjustVPC.PrivateSubnetCIDRs,
          PublicSubnetCIDRs |-> v.adjustVPC.PublicSubnetCIDRs]

\* config.NewCustomizeEnv
NewCustomizeEnv(importVPC, adjustVPC) ==
    IF importVPC = NoVPC /\ adjustVPC = NoVPC THEN NoCustomConfig
    ELSE [ImportVPC |-> importVPC, VPCConfig |-> adjustVPC]

\* Application.RequiresDNSDelegation: the application has a domain.
RequiresDNSDelegation(ap) == ap.Domain # ""

\* ------------------------------------------------------------------------
\* Initial states.
\* ------------------------------------------------------------------------
\* The flag values Execute can start from: those Validate and Ask let through.
ExecuteVars ==
    {[appName |-> an, name |-> "test", isProduction |-> prod,
      defaultConfig |-> cfg[1], importVPC |-> cfg[2], adjustVPC |-> cfg[3]] :
        an \in AppNames, prod \in BOOLEAN,
        cfg \in {<<TRUE, emptyImportVPC, emptyAdjustVPC>>,
                 <<FALSE, [ID |-> "vpc-1", PublicSubnetIDs |-> <<>>,
                           PrivateSubnetIDs |-> <<"priv-1", "priv-2">>],
                   emptyAdjustVPC>>,
                 <<FALSE, emptyImportVPC,
                   [CIDR |-> "10.1.0.0/16", AZs |-> <<"az-a", "az-b">>,
                    PublicSubnetCIDRs |-> <<"10.1.0.0/24", "10.1.1.0/24">>,
                    PrivateSubnetCIDRs |-> <<"10.1.2.0/24", "10.1.3.0/24">>]>>}}

\* A record left in the store by an earlier environment of the same name.
OldEnv == [app |-> "demo", name |-> "test", region |-> "eu-west-1",
           accountID |-> "9999", prod |-> TRUE]

offVars == [appName |-> "", name |-> "", isProduction |-> FALSE,
            defaultConfig |-> TRUE, importVPC |-> emptyImportVPC,
            adjustVPC |-> emptyAdjustVPC]

InitExternal ==
    /\ \E d \in {"", "example.com"} :
         storeApps = [n \in AppNames |->
                        IF n = "demo"
                        THEN [Name |-> n, AccountID |-> AppAccount, Domain |-> d]
                        ELSE NoApp]
    /\ \E old \in {NoEnv, OldEnv} :
         storeEnvs = [k \in EnvKeys |-> IF k = <<"demo", "test">> THEN old ELSE NoEnv]
    /\ \E st \in BOOLEAN :
         cfnStacks = [s \in StackNames |-> s = NameForEnv("demo", "test") /\ st]
    /\ \E r1 \in RoleStates("test"), r2 \in RoleStates("test") :
         iamRoles = [r \in RoleNames |->
                       IF r = roleNames("demo", "test")[1] THEN r1
                       ELSE IF r = roleNames("demo", "test")[2] THEN r2
                       ELSE RoleAbsent]

InitAttempts(active) ==
    /\ o \in [AttemptIds -> ExecuteVars \cup {offVars}]
    /\ \A a \in AttemptIds : (o[a] = offVars) <=> (a \notin active)
    /\ sessAccount \in [AttemptIds -> Accounts]
    /\ \A a \in AttemptIds \ active : sessAccount[a] = AppAccount
    /\ pc = [a \in AttemptIds |-> IF a \in active THEN "GetApplication" ELSE "off"]
    /\ app = [a \in AttemptIds |-> NoApp]
    /\ envCaller = [a \in AttemptIds |-> ""]
    /\ urls = [a \in AttemptIds |-> NoURLs]
    /\ deployInput = [a \in AttemptIds |-> NoInput]
    /\ deployErr = [a \in AttemptIds |-> NoErr]
    /\ cleanup = [a \in AttemptIds |-> [phase |-> "none", idx |-> 0]]
    /\ env = [a \in AttemptIds |-> NoEnv]
    /\ err = [a \in AttemptIds |-> NoErr]
    /\ calls = [a \in AttemptIds |-> <<>>]
    /\ slrResult = [a \in AttemptIds |-> "none"]

\* No Store method has been called.
NoStoreCall == [op |-> "none", appName |-> "", name |-> "", environment |-> NoEnv,
                appErr |-> NoErr, ssmFails |-> FALSE, err |-> NoErr, env |-> NoEnv,
                envs |-> <<>>, returned |-> NoErr, before |-> <<>>]

\* One attempt runs alone.
\* No invocation of the command is under way; no template is being rendered.
NoCmd == [pc |-> "off"]
NoRender == [pc |-> "off"]

Init ==
    /\ InitExternal /\ InitAttempts({1}) /\ storeCall = NoStoreCall
    /\ cmd = NoCmd /\ render = NoRender

\* ------------------------------------------------------------------------
\* Execute, step by step.
\* ------------------------------------------------------------------------
Goto(a, p) == pc' = [pc EXCEPT ![a] = p]
\* return e
Return(a, e) == /\ pc' = [pc EXCEPT ![a] = "done"]
                /\ err' = [err EXCEPT ![a] = e]

\* One external call in the history: its name, the role it is about (NoRole
\* if none) and what it answered.
Ev(op, res) == [op |-> op, role |-> NoRole, res |-> res]
EvRole(op, role, res) == [op |-> op, role |-> role, res |-> res]
Called(a, es) == calls' = [calls EXCEPT ![a] = @ \o es]

\* The errors Store.GetApplication can answer for a name (NoErr: found).
getApplicationErrs(name) ==
    {<<"ErrStore">>} \cup
    (IF storeApps[name] = NoApp THEN {<<"ErrNoSuchApplication">>} ELSE {NoErr})

\* Variant: the error of the application lookup is dropped and Execute goes on.
getApplicationFailedIgnored(a, e) == Goto(a, "envIdentity") /\ UNCHANGED err

\* Execute: `if err != nil { return err }` after GetApplication.
getApplicationFailed(a, e) == Return(a, e)

\* Execute: app, err := o.store.GetApplication(o.appName)
GetApplication(a) ==
    /\ pc[a] = "GetApplication"
    /\ \E e \in getApplicationErrs(o[a].appName) :
          IF e = NoErr
          THEN /\ Called(a, <<Ev("GetApplication", "ok")>>)
               /\ app' = [app EXCEPT ![a] = storeApps[o[a].appName]]
               /\ Goto(a, "envIdentity")
               /\ UNCHANGED err
          ELSE /\ Called(a, <<Ev("GetApplication", "error")>>)
               /\ getApplicationFailed(a, e)
               /\ UNCHANGED app
    /\ UNCHANGED <<extVars, optVars, storeCall, cmd, render, envCaller, urls, deployInput, deployErr,
                   cleanup, env, slrResult>>

\* Variant: DNS is delegated also within the application's own account.
delegatesDNSAnyAccount(ap, accountID) == RequiresDNSDelegation(ap)

\* Execute and delegateDNSFromApp: DelegateDNSPermissions is reached when
\* app.RequiresDNSDelegation() and not accountID == app.AccountID.
delegatesDNS(ap, accountID) ==
    RequiresDNSDelegation(ap) /\ ~(accountID = ap.AccountID)

\* Execute: envCaller, err := o.envIdentity.Get(), then the decision whether
\* DNS is delegated (app.RequiresDNSDelegation, delegateDNSFromApp's account test).
EnvIdentityGet(a) ==
    /\ pc[a] = "envIdentity"
    /\ \/ /\ Called(a, <<Ev("envIdentity.Get", "ok")>>)
          /\ envCaller' = [envCaller EXCEPT ![a] = sessAccount[a]]
          /\ IF delegatesDNS(app[a], sessAccount[a])
             THEN Goto(a, "DelegateDNSPermissions")
             ELSE Goto(a, "CreateECSServiceLinkedRole")
          /\ UNCHANGED err
       \/ /\ Called(a, <<Ev("envIdentity.Get", "error")>>)
          /\ Return(a, Wrap("get identity", <<"ErrIdentity">>))
          /\ UNCHANGED envCaller
    /\ UNCHANGED <<extVars, optVars, storeCall, cmd, render, app, urls, deployInput, deployErr,
                   cleanup, env, slrResult>>

\* Variant: a failed call returns without closing the progress signal.
withProgressOpenOnFailure(what, op, res) ==
    IF res = "error"
    THEN <<Ev("prog.Start", what), Ev(op, res)>>
    ELSE <<Ev("prog.Start", what), Ev(op, res), Ev("prog.Stop", "success")>>

\* addToStackset and delegateDNSFromApp: o.prog.Start(...), the call, and
\* o.prog.Stop(...) with log.Serrorf in the `err != nil` branch, with
\* log.Ssuccessf after it.
withProgress(what, op, res) ==
    <<Ev("prog.Start", what), Ev(op, res),
      Ev("prog.Stop", IF res = "error" THEN "failure" ELSE "success")>>

\* delegateDNSFromApp past the account test.
DelegateDNSPermissions(a) ==
    /\ pc[a] = "DelegateDNSPermissions"
    /\ \/ /\ Called(a, withProgress("dns", "DelegateDNSPermissions", "ok"))
          /\ Goto(a, "CreateECSServiceLinkedRole")
          /\ UNCHANGED err
       \/ /\ Called(a, withProgress("dns", "DelegateDNSPermissions", "error"))
          /\ Return(a, Wrap("granting DNS permissions", <<"ErrDelegateDNS">>))
    /\ UNCHANGED <<extVars, optVars, storeCall, cmd, render, app, envCaller, urls, deployInput, deployErr,
                   cleanup, env, slrResult>>

\* Variant: an error of the role creation other than "already exists" is returned.
serviceLinkedRoleResultReturned(a, r) ==
    IF r = "error"
    THEN Return(a, <<"ErrCreateServiceLinkedRole">>)
    ELSE Goto(a, "AddEnvToApp") /\ UNCHANGED err

\* Execute: `_ =` drops whatever CreateECSServiceLinkedRole returned.
serviceLinkedRoleResult(a, r) == Goto(a, "AddEnvToApp") /\ UNCHANGED err

\* Execute: _ = o.iam.CreateECSServiceLinkedRole()
CreateECSServiceLinkedRole(a) ==
    /\ pc[a] = "CreateECSServiceLinkedRole"
    /\ \E r \in {"created", "alreadyExists", "error"} :
          /\ Called(a, <<Ev("CreateECSServiceLinkedRole", r)>>)
          /\ slrResult' = [slrResult EXCEPT ![a] = r]
          /\ serviceLinkedRoleResult(a, r)
    /\ UNCHANGED <<extVars, optVars, storeCall, cmd, render, app, envCaller, urls, deployInput, deployErr,
                   cleanup, env>>

\* Variant: a failed stack-set registration does not stop Execute.
addToStacksetFailedIgnored(a, e) ==
    Goto(a, "GetAppResourcesByRegion") /\ UNCHANGED err

\* addToStackset: the branch of a failed AddEnvToApp.
addToStacksetFailed(a, e) == Return(a, Wrap("deploy env to application", e))

\* addToStackset
AddEnvToApp(a) ==
    /\ pc[a] = "AddEnvToApp"
    /\ \/ /\ Called(a, withProgress("stackset", "AddEnvToApp", "ok"))
          /\ Goto(a, "GetAppResourcesByRegion")
          /\ UNCHANGED err
       \/ /\ Called(a, withProgress("stackset", "AddEnvToApp", "error"))
          /\ addToStacksetFailed(a, <<"ErrAddEnvToApp">>)
    /\ UNCHANGED <<extVars, optVars, storeCall, cmd, render, app, envCaller, urls, deployInput, deployErr,
                   cleanup, env, slrResult>>

\* Execute: resources, err := o.appCFN.GetAppResourcesByRegion(app, envRegion)
GetAppResourcesByRegion(a) ==
    /\ pc[a] = "GetAppResourcesByRegion"
    /\ \/ /\ Called(a, <<Ev("GetAppResourcesByRegion", "ok")>>)
          /\ Goto(a, "newS3")
          /\ UNCHANGED err
       \/ /\ Called(a, <<Ev("GetAppResourcesByRegion", "error")>>)
          /\ Return(a, Wrap("get app resources", <<"ErrAppResources">>))
    /\ UNCHANGED <<extVars, optVars, storeCall, cmd, render, app, envCaller, urls, deployInput, deployErr,
                   cleanup, env, slrResult>>

\* Execute: s3Client, err := o.newS3(envRegion)
newS3(a) ==
    /\ pc[a] = "newS3"
    /\ \/ /\ Called(a, <<Ev("newS3", "ok")>>)
          /\ Goto(a, "UploadEnvironmentCustomResources")
          /\ UNCHANGED err
       \/ /\ Called(a, <<Ev("newS3", "error")>>)
          /\ Return(a, <<"ErrNewS3">>)
    /\ UNCHANGED <<extVars, optVars, storeCall, cmd, render, app, envCaller, urls, deployInput, deployErr,
                   cleanup, env, slrResult>>

\* Variant: a failed upload does not stop Execute.
uploadFailedIgnored(a, e) == Goto(a, "identity") /\ UNCHANGED err

\* Execute: the branch of a failed UploadEnvironmentCustomResources.
uploadFailed(a, e) == Return(a, Wrap("upload custom resources to bucket", e))

\* Execute: urls, err := o.uploader.UploadEnvironmentCustomResources(...)
UploadEnvironmentCustomResources(a) ==
    /\ pc[a] = "UploadEnvironmentCustomResources"
    /\ \/ /\ Called(a, <<Ev("UploadEnvironmentCustomResources", "ok")>>)
          /\ urls' = [urls EXCEPT ![a] = UploadedURLs]
          /\ Goto(a, "identity")
          /\ UNCHANGED err
       \/ /\ Called(a, <<Ev("UploadEnvironmentCustomResources", "error")>>)
          /\ uploadFailed(a, <<"ErrUpload">>)
          /\ UNCHANGED urls
    /\ UNCHANGED <<extVars, optVars, storeCall, cmd, render, app, envCaller, deployInput, deployErr,
                   cleanup, env, slrResult>>

\* ---- deployEnv -----------------------------------------------------------
\* Variant: "stack already exists" is not recognised.
isStackAlreadyExistsNever(e) == FALSE

\* errors.As(err, &existsErr) of deployEnv.
isStackAlreadyExists(e) == e = ErrStackAlreadyExists

\* Variant: the tag test lets every listed role through.
hasEnvTagAlways(tags) == TRUE

\* _, hasTag := tags[deploy.EnvTagKey] of tryDeletingEnvRoles.
hasEnvTag(tags) == \E t \in tags : t[1] = EnvTagKey

\* Variant: every round of the loop is about the first role name.
currentRoleFirstOnly(a) == roleNames(o[a].appName, o[a].name)[1]

\* The role the running tryDeletingEnvRoles loop is at.
currentRole(a) == roleNames(o[a].appName, o[a].name)[cleanup[a].idx]

\* tryDeletingEnvRoles is entered: the loop starts at the first role name.
tryDeletingEnvRoles(a, phase) ==
    /\ cleanup' = [cleanup EXCEPT ![a] = [phase |-> phase, idx |-> 1]]
    /\ Goto(a, "ListRoleTags")

\* Variant: after the cleanup of a failed deployment the error is lost.
afterTryDeletingEnvRolesDropsErr(a) ==
    IF cleanup[a].phase = "pre"
    THEN Goto(a, "DeployAndRenderEnvironment") /\ UNCHANGED err
    ELSE Return(a, NoErr)

\* What follows the call of tryDeletingEnvRoles: the pre-deploy cleanup
\* (cleanUpDanglingRoles) returns nil and deployEnv invokes the deployer; the
\* cleanup after a failed deployment is followed by deployEnv's `return err`.
afterTryDeletingEnvRoles(a) ==
    IF cleanup[a].phase = "pre"
    THEN Goto(a, "DeployAndRenderEnvironment") /\ UNCHANGED err
    ELSE Return(a, deployErr[a])

\* `continue` / end of the loop body of tryDeletingEnvRoles.
nextRole(a) ==
    IF cleanup[a].idx < Len(roleNames(o[a].appName, o[a].name))
    THEN /\ cleanup' = [cleanup EXCEPT ![a].idx = @ + 1]
         /\ Goto(a, "ListRoleTags")
         /\ UNCHANGED err
    ELSE /\ cleanup' = [cleanup EXCEPT ![a] = [phase |-> "none", idx |-> 0]]
         /\ afterTryDeletingEnvRoles(a)

\* deployEnv: caller, err := o.identity.Get() and the deployEnvInput literal.
deployEnvInput(a) ==
    /\ pc[a] = "identity"
    /\ \/ /\ Called(a, <<Ev("identity.Get", "ok")>>)
          /\ deployInput' = [deployInput EXCEPT ![a] =
                [Name |-> o[a].name,
                 App |-> [Name |-> o[a].appName, DNSName |-> app[a].Domain],
                 Prod |-> o[a].isProduction,
                 CustomResourcesURLs |-> urls[a],
                 AdjustVPCConfig |-> adjustVPCConfig(o[a]),
                 ImportVPCConfig |-> importVPCConfig(o[a])]]
          /\ Goto(a, "Exists")
          /\ UNCHANGED err
       \/ /\ Called(a, <<Ev("identity.Get", "error")>>)
          /\ Return(a, Wrap("get identity", <<"ErrIdentity">>))
          /\ UNCHANGED deployInput
    /\ UNCHANGED <<extVars, optVars, storeCall, cmd, render, app, envCaller, urls, deployErr, cleanup,
                   env, slrResult>>

\* cleanUpDanglingRoles after a failed existence check.
existsFailed(a, e) ==
    /\ Return(a, Wrap("check if stack exists", e))
    /\ UNCHANGED cleanup

\* Variant: the roles are cleaned up whether or not the stack exists.
existsAnsweredAlwaysCleans(a, exists) ==
    tryDeletingEnvRoles(a, "pre") /\ UNCHANGED err

\* Variant: the pre-deploy cleanup is never run.
existsAnsweredNeverCleans(a, exists) ==
    Goto(a, "DeployAndRenderEnvironment") /\ UNCHANGED <<cleanup, err>>

\* cleanUpDanglingRoles after an answered existence check.
existsAnswered(a, exists) ==
    IF exists
    THEN Goto(a, "DeployAndRenderEnvironment") /\ UNCHANGED <<cleanup, err>>
    ELSE tryDeletingEnvRoles(a, "pre") /\ UNCHANGED err

\* cleanUpDanglingRoles: exists, err := o.cfn.Exists(stack.NameForEnv(app, env))
cleanUpDanglingRoles(a) ==
    LET exists == cfnStacks[NameForEnv(o[a].appName, o[a].name)] IN
    /\ pc[a] = "Exists"
    /\ \/ /\ Called(a, <<Ev("Exists", IF exists THEN "true" ELSE "false")>>)
          /\ existsAnswered(a, exists)
       \/ /\ Called(a, <<Ev("Exists", "error")>>)
          /\ existsFailed(a, <<"ErrDescribeStacks">>)
    /\ UNCHANGED <<extVars, optVars, storeCall, cmd, render, app, envCaller, urls, deployInput, deployErr,
                   env, slrResult>>

\* What the history keeps of the tags IAM listed: the value of the
\* copilot-environment tag, or "noTag".
listedTag(tags) ==
    IF \E t \in tags : t[1] = EnvTagKey
    THEN (CHOOSE t \in tags : t[1] = EnvTagKey)[2]
    ELSE "noTag"

\* tryDeletingEnvRoles: tags, err := o.iam.ListRoleTags(roleName) and the tag test.
ListRoleTags(a) ==
    /\ pc[a] = "ListRoleTags"
    /\ \/ \* err != nil: continue.  An absent role has no tags to list.
          /\ Called(a, <<EvRole("ListRoleTags", currentRole(a), "error")>>)
          /\ nextRole(a)
       \/ /\ iamRoles[currentRole(a)].exists
          /\ Called(a, <<EvRole("ListRoleTags", currentRole(a),
                                listedTag(iamRoles[currentRole(a)].tags))>>)
          /\ IF hasEnvTag(iamRoles[currentRole(a)].tags)
             THEN Goto(a, "DeleteRole") /\ UNCHANGED <<cleanup, err>>
             ELSE nextRole(a)
    /\ UNCHANGED <<extVars, optVars, storeCall, cmd, render, app, envCaller, urls, deployInput, deployErr,
                   env, slrResult>>

\* Variant: a failed DeleteRole is returned to the caller.
deleteRoleResultPropagates(a, deleted) ==
    IF deleted THEN nextRole(a)
    ELSE Return(a, <<"ErrDeleteRole">>) /\ UNCHANGED cleanup

\* Variant: a failed DeleteRole is tried once more.
deleteRoleResultRetriesOnce(a, deleted) ==
    IF ~deleted /\ calls[a][Len(calls[a])].op # "DeleteRole"
    THEN Goto(a, "DeleteRole") /\ UNCHANGED <<cleanup, err>>
    ELSE nextRole(a)

\* tryDeletingEnvRoles: the result of DeleteRole is dropped (`_ =`).
deleteRoleResult(a, deleted) == nextRole(a)

\* tryDeletingEnvRoles: _ = o.iam.DeleteRole(roleName)
DeleteRole(a) ==
    /\ pc[a] = "DeleteRole"
    /\ \/ /\ iamRoles[currentRole(a)].exists
          /\ iamRoles' = [iamRoles EXCEPT ![currentRole(a)] = RoleAbsent]
          /\ Called(a, <<EvRole("DeleteRole", currentRole(a), "ok")>>)
          /\ deleteRoleResult(a, TRUE)
       \/ /\ UNCHANGED iamRoles
          /\ Called(a, <<EvRole("DeleteRole", currentRole(a), "error")>>)
          /\ deleteRoleResult(a, FALSE)
    /\ UNCHANGED <<storeApps, storeEnvs, cfnStacks, optVars, storeCall, cmd, render, app, envCaller, urls,
                   deployInput, deployErr, env, slrResult>>

\* Variant: every answer of the deployer is taken for a success.
deployEnvResultIgnoresFailure(a, e) ==
    Goto(a, "GetEnvironment") /\ UNCHANGED <<cleanup, err>>

\* Variant: a failed deployment is returned without the role cleanup.
deployEnvResultNoCleanup(a, e) ==
    IF e = NoErr \/ isStackAlreadyExists(e)
    THEN Goto(a, "GetEnvironment") /\ UNCHANGED <<cleanup, err>>
    ELSE Return(a, e) /\ UNCHANGED cleanup

\* deployEnv after DeployAndRenderEnvironment returned e.
deployEnvResult(a, e) ==
    IF e = NoErr \/ isStackAlreadyExists(e)
    THEN Goto(a, "GetEnvironment") /\ UNCHANGED <<cleanup, err>>
    ELSE tryDeletingEnvRoles(a, "post") /\ UNCHANGED err

\* deployEnv: o.envDeployer.DeployAndRenderEnvironment(os.Stderr, deployEnvInput)
DeployAndRenderEnvironment(a) ==
    LET stk == NameForEnv(deployInput[a].App.Name, deployInput[a].Name)
        rs == roleNames(deployInput[a].App.Name, deployInput[a].Name)
        created == [r \in RoleNames |->
                      IF r \in {rs[1], rs[2]} /\ ~iamRoles[r].exists
                      THEN RoleOf(deployInput[a].Name) ELSE iamRoles[r]]
    IN
    /\ pc[a] = "DeployAndRenderEnvironment"
    /\ \/ \* The stack and its two roles are created.
          /\ ~cfnStacks[stk]
          /\ ~iamRoles[rs[1]].exists /\ ~iamRoles[rs[2]].exists
          /\ cfnStacks' = [cfnStacks EXCEPT ![stk] = TRUE]
          /\ iamRoles' = created
          /\ Called(a, <<Ev("DeployAndRenderEnvironment", "ok")>>)
          /\ deployErr' = [deployErr EXCEPT ![a] = NoErr]
          /\ deployEnvResult(a, NoErr)
       \/ \* A stack of that name exists.
          /\ cfnStacks[stk]
          /\ UNCHANGED <<cfnStacks, iamRoles>>
          /\ Called(a, <<Ev("DeployAndRenderEnvironment", "alreadyExists")>>)
          /\ deployErr' = [deployErr EXCEPT ![a] = ErrStackAlreadyExists]
          /\ deployEnvResult(a, ErrStackAlreadyExists)
       \/ \* The deployment fails for another reason; the creation of a new
          \* stack may have left the retained roles, and the failed stack, behind.
          /\ Called(a, <<Ev("DeployAndRenderEnvironment", "error")>>)
          /\ \E e \in DeployFailures :
                /\ deployErr' = [deployErr EXCEPT ![a] = e]
                /\ deployEnvResult(a, e)
          /\ \/ UNCHANGED <<cfnStacks, iamRoles>>
             \/ /\ ~cfnStacks[stk]
                /\ iamRoles' = created
                /\ \E left \in BOOLEAN : cfnStacks' = [cfnStacks EXCEPT ![stk] = left]
    /\ UNCHANGED <<storeApps, storeEnvs, optVars, storeCall, cmd, render, app, envCaller, urls, deployInput,
                   env, slrResult>>

\* ---- record persistence ---------------------------------------------------
\* Variant: the deployer's descriptor is stored as it came.
stampEnvSkipped(e, v) == e

\* Variant: only the production flag is stamped.
stampEnvProdOnly(e, v) == [e EXCEPT !.Prod = v.isProduction]

\* Execute: env.Prod = o.isProduction; env.CustomConfig = config.NewCustomizeEnv(...)
stampEnv(e, v) ==
    [e EXCEPT !.Prod = v.isProduction,
              !.CustomConfig = NewCustomizeEnv(importVPCConfig(v), adjustVPCConfig(v))]

\* Execute: env, err := o.envDeployer.GetEnvironment(o.appName, o.name), then
\* env.Prod and env.CustomConfig are stamped.
GetEnvironment(a) ==
    /\ pc[a] = "GetEnvironment"
    /\ \/ /\ cfnStacks[NameForEnv(o[a].appName, o[a].name)]
          /\ Called(a, <<Ev("GetEnvironment", "ok")>>)
          /\ \E deployedProd \in BOOLEAN :
                env' = [env EXCEPT ![a] =
                          stampEnv([App |-> o[a].appName, Name |-> o[a].name,
                                    Region |-> envRegion, AccountID |-> sessAccount[a],
                                    Prod |-> deployedProd,
                                    CustomConfig |-> NoCustomConfig], o[a])]
          /\ Goto(a, "CreateEnvironment")
          /\ UNCHANGED err
       \/ /\ Called(a, <<Ev("GetEnvironment", "error")>>)
          /\ Return(a, Wrap("get environment struct", <<"ErrDescribeEnv">>))
          /\ UNCHANGED env
    /\ UNCHANGED <<extVars, optVars, storeCall, cmd, render, app, envCaller, urls, deployInput, deployErr,
                   cleanup, slrResult>>

\* marshal(environment): the JSON document of an Environment; customConfig
\* is `omitempty`, a nil CustomConfig leaves no key in the document.
marshal(e) ==
    IF e.CustomConfig = NoCustomConfig
    THEN [app |-> e.App, name |-> e.Name, region |-> e.Region,
          accountID |-> e.AccountID, prod |-> e.Prod]
    ELSE [app |-> e.App, name |-> e.Name, region |-> e.Region,
          accountID |-> e.AccountID, prod |-> e.Prod,
          customConfig |-> e.CustomConfig]

\* json.Unmarshal into an Environment: a missing customConfig key is nil.
unmarshal(d) ==
    [App |-> d.app, Name |-> d.name, Region |-> d.region,
     AccountID |-> d.accountID, Prod |-> d.prod,
     CustomConfig |-> IF "customConfig" \in DOMAIN d THEN d.customConfig
                      ELSE NoCustomConfig]

\* Variant: the record is written over the one already stored (an upsert).
storeCreateEnvironmentOverwrites(environment, appErr, putFails) ==
    LET key == <<environment.App, environment.Name>> IN
    IF appErr # NoErr
    THEN [err |-> appErr, envs |-> storeEnvs]
    ELSE IF putFails
    THEN [err |-> Wrap("create environment", <<"ErrSSM">>), envs |-> storeEnvs]
    ELSE [err |-> NoErr, envs |-> [storeEnvs EXCEPT ![key] = marshal(environment)]]

\* Variant: the owning application is not looked up.
storeCreateEnvironmentNoAppCheck(environment, appErr, putFails) ==
    LET key == <<environment.App, environment.Name>> IN
    IF putFails
    THEN [err |-> Wrap("create environment", <<"ErrSSM">>), envs |-> storeEnvs]
    ELSE IF storeEnvs[key] # NoEnv
    THEN [err |-> NoErr, envs |-> storeEnvs]
    ELSE [err |-> NoErr, envs |-> [storeEnvs EXCEPT ![key] = marshal(environment)]]

\* Store.CreateEnvironment: the error it returns and the parameters it leaves,
\* for one answer of GetApplication (appErr) and of SSM (putFails: PutParameter
\* fails for another reason than ParameterAlreadyExists).
storeCreateEnvironment(environment, appErr, putFails) ==
    LET key == <<environment.App, environment.Name>> IN
    IF appErr # NoErr
    THEN [err |-> appErr, envs |-> storeEnvs]
    ELSE IF putFails
    THEN [err |-> Wrap("create environment", <<"ErrSSM">>), envs |-> storeEnvs]
    ELSE IF storeEnvs[key] # NoEnv
    THEN \* ssm.ErrCodeParameterAlreadyExists: return nil
         [err |-> NoErr, envs |-> storeEnvs]
    ELSE [err |-> NoErr, envs |-> [storeEnvs EXCEPT ![key] = marshal(environment)]]

\* &ErrNoSuchEnvironment{ApplicationName, EnvironmentName}
ErrNoSuchEnvironment(appName, environmentName) ==
    <<"ErrNoSuchEnvironment", appName, environmentName>>

\* Variant: a missing parameter is reported like any other failure of SSM.
storeGetEnvironmentWrapsNotFound(envs, appName, environmentName, ssmFails) ==
    IF ssmFails \/ envs[<<appName, environmentName>>] = NoEnv
    THEN [env |-> NoEnv, err |-> Wrap("get environment", <<"ErrSSM">>)]
    ELSE [env |-> unmarshal(envs[<<appName, environmentName>>]), err |-> NoErr]

\* Store.GetEnvironment over the parameters envs: the environment and the
\* error it returns (ssmFails: GetParameter fails for another reason than
\* ParameterNotFound).
storeGetEnvironment(envs, appName, environmentName, ssmFails) ==
    IF ssmFails
    THEN [env |-> NoEnv, err |-> Wrap("get environment", <<"ErrSSM">>)]
    ELSE IF envs[<<appName, environmentName>>] = NoEnv
    THEN [env |-> NoEnv, err |-> ErrNoSuchEnvironment(appName, environmentName)]
    ELSE [env |-> unmarshal(envs[<<appName, environmentName>>]), err |-> NoErr]

\* Execute, step 6: what Execute returns for the error of store.CreateEnvironment.
executeStoreResult(e) == IF e # NoErr THEN Wrap("store environment", e) ELSE NoErr

\* Execute: o.store.CreateEnvironment(env) and the return of Execute.
CreateEnvironment(a) ==
    /\ pc[a] = "CreateEnvironment"
    /\ \E appErr \in getApplicationErrs(env[a].App), putFails \in BOOLEAN :
          LET res == storeCreateEnvironment(env[a], appErr, putFails) IN
          /\ storeEnvs' = res.envs
          /\ IF res.err # NoErr
             THEN Called(a, <<Ev("CreateEnvironment", "error")>>)
             ELSE Called(a, <<Ev("CreateEnvironment", "ok")>>)
          /\ Return(a, executeStoreResult(res.err))
    /\ UNCHANGED <<storeApps, cfnStacks, iamRoles, optVars, storeCall, cmd, render, app, envCaller, urls,
                   deployInput, deployErr, cleanup, env, slrResult>>

\* ------------------------------------------------------------------------
\* The record store (package config) under its callers.
\* ------------------------------------------------------------------------
\* Environment names in the order of Go's string comparison.
EnvNameSeq == <<"dev", "qa", "staging", "test", "uat">>
StoreEnvNames == {EnvNameSeq[i] : i \in 1..NumStoreEnvNames}
\* The keys the callers use: every name under "demo", one under "ghost".
StoreKeys == {<<"demo", n>> : n \in StoreEnvNames} \cup {<<"ghost", EnvNameSeq[1]>>}

\* environments[i].Name < environments[j].Name
nameLess(x, y) ==
    (CHOOSE i \in DOMAIN EnvNameSeq : EnvNameSeq[i] = x) <
    (CHOOSE i \in DOMAIN EnvNameSeq : EnvNameSeq[i] = y)

\* The first less function of ListEnvironments.
lessByName(x, y) == nameLess(x.Name, y.Name)

\* Variant: production environments are moved to the front.
lessNonProdReversed(x, y) == x.Prod

\* The second less function of ListEnvironments: !environments[i].Prod,
\* whatever environments[j] is.
lessNonProd(x, y) == ~x.Prod

less(by, x, y) == IF by = "name" THEN lessByName(x, y) ELSE lessNonProd(x, y)

swap(data, i, j) == [data EXCEPT ![i] = data[j], ![j] = data[i]]

\* sort.SliceStable on fewer than 20 elements is one insertion sort:
\*   for i := a + 1; i < b; i++ {
\*       for j := i; j > a && less(j, j-1); j-- { swap(j, j-1) } }
RECURSIVE insertBack(_, _, _)
insertBack(data, j, by) ==
    IF j > 1 /\ less(by, data[j], data[j - 1])
    THEN insertBack(swap(data, j, j - 1), j - 1, by)
    ELSE data

RECURSIVE insertionSort(_, _, _)
insertionSort(data, i, by) ==
    IF i > Len(data) THEN data
    ELSE insertionSort(insertBack(data, i, by), i + 1, by)

SliceStable(data, by) == insertionSort(data, 2, by)

\* The orders in which SSM can hand out the parameters of a set of keys.
Orderings(S) ==
    {f \in [1..Cardinality(S) -> S] : \A x \in S : \E i \in DOMAIN f : f[i] = x}

\* Store.ListEnvironments for the parameters SSM listed (serializedEnvs), or
\* for a failure of the listing.
storeListEnvironments(serializedEnvs, ssmFails) ==
    IF ssmFails
    THEN [envs |-> <<>>, err |-> Wrap("list environments", <<"ErrSSM">>)]
    ELSE LET environments == [i \in DOMAIN serializedEnvs |-> unmarshal(serializedEnvs[i])]
         IN [envs |-> SliceStable(SliceStable(environments, "name"), "prod"),
             err |-> NoErr]

\* Variant: a record that is absent cannot be deleted.
storeDeleteEnvironmentStrict(envs, appName, environmentName, ssmFails) ==
    IF ssmFails \/ envs[<<appName, environmentName>>] = NoEnv
    THEN [err |-> Wrap("delete environment", <<"ErrSSM">>), envs |-> envs]
    ELSE [err |-> NoErr, envs |-> [envs EXCEPT ![<<appName, environmentName>>] = NoEnv]]

\* Store.DeleteEnvironment: the error it returns and the parameters it leaves
\* (ssmFails: DeleteParameter fails for another reason than ParameterNotFound).
storeDeleteEnvironment(envs, appName, environmentName, ssmFails) ==
    IF ssmFails
    THEN [err |-> Wrap("delete environment", <<"ErrSSM">>), envs |-> envs]
    ELSE IF envs[<<appName, environmentName>>] = NoEnv
    THEN \* ssm.ErrCodeParameterNotFound: return nil
         [err |-> NoErr, envs |-> envs]
    ELSE [err |-> NoErr, envs |-> [envs EXCEPT ![<<appName, environmentName>>] = NoEnv]]

\* The environments the callers hand to CreateEnvironment.
StoreEnvironments ==
    {[App |-> k[1], Name |-> k[2], Region |-> envRegion, AccountID |-> AppAccount,
      Prod |-> v[1], CustomConfig |-> v[2]] :
        k \in StoreKeys,
        v \in {<<FALSE, NoCustomConfig>>, <<TRUE, NoCustomConfig>>,
               <<TRUE, NewCustomizeEnv([ID |-> "vpc-1", PrivateSubnetIDs |-> <<"priv-1">>,
                                        PublicSubnetIDs |-> <<>>], NoVPC)>>}}

\* A caller calls s.CreateEnvironment(environment).
StoreCreateEnvironment ==
    \E environment \in StoreEnvironments :
        \E appErr \in getApplicationErrs(environment.App), putFails \in BOOLEAN :
            LET res == storeCreateEnvironment(environment, appErr, putFails) IN
            \* PutParameter is called, and can fail, only after GetApplication succeeded
            /\ putFails => appErr = NoErr
            /\ storeEnvs' = res.envs
            /\ storeCall' = [NoStoreCall EXCEPT
                                !.op = "CreateEnvironment",
                                !.appName = environment.App,
                                !.name = environment.Name,
                                !.environment = environment,
                                !.appErr = appErr, !.ssmFails = putFails,
                                !.err = res.err,
                                !.returned = executeStoreResult(res.err),
                                !.before = storeEnvs]
            /\ UNCHANGED <<storeApps, cfnStacks, iamRoles, optVars, attemptVars, cmd, render>>

\* A caller calls s.GetEnvironment(appName, environmentName).
StoreGetEnvironment ==
    \E k \in StoreKeys, ssmFails \in BOOLEAN :
        LET res == storeGetEnvironment(storeEnvs, k[1], k[2], ssmFails) IN
        /\ storeCall' = [NoStoreCall EXCEPT
                            !.op = "GetEnvironment",
                            !.appName = k[1], !.name = k[2],
                            !.ssmFails = ssmFails,
                            !.err = res.err, !.env = res.env,
                            !.before = storeEnvs]
        /\ UNCHANGED <<extVars, optVars, attemptVars, cmd, render>>

\* A caller calls s.ListEnvironments(appName); SSM lists the parameters of
\* the application in an order of its own.
StoreListEnvironments ==
    \E appName \in AppNames, ssmFails \in BOOLEAN :
        \E order \in Orderings({k \in StoreKeys : k[1] = appName /\ storeEnvs[k] # NoEnv}) :
            LET res == storeListEnvironments([i \in DOMAIN order |-> storeEnvs[order[i]]],
                                             ssmFails)
            IN
            /\ storeCall' = [NoStoreCall EXCEPT
                                !.op = "ListEnvironments",
                                !.appName = appName,
                                !.ssmFails = ssmFails,
                                !.err = res.err, !.envs = res.envs,
                                !.before = storeEnvs]
            /\ UNCHANGED <<extVars, optVars, attemptVars, cmd, render>>

\* A caller calls s.DeleteEnvironment(appName, environmentName).
StoreDeleteEnvironment ==
    \E k \in StoreKeys, ssmFails \in BOOLEAN :
        LET res == storeDeleteEnvironment(storeEnvs, k[1], k[2], ssmFails) IN
        /\ storeEnvs' = res.envs
        /\ storeCall' = [NoStoreCall EXCEPT
                            !.op = "DeleteEnvironment",
                            !.appName = k[1], !.name = k[2],
                            !.ssmFails = ssmFails,
                            !.err = res.err,
                            !.before = storeEnvs]
        /\ UNCHANGED <<storeApps, cfnStacks, iamRoles, optVars, attemptVars, cmd, render>>

\* ------------------------------------------------------------------------
\* Specification.
\* ------------------------------------------------------------------------
Execute(a) ==
    \/ GetApplication(a)
    \/ EnvIdentityGet(a)
    \/ DelegateDNSPermissions(a)
    \/ CreateECSServiceLinkedRole(a)
    \/ AddEnvToApp(a)
    \/ GetAppResourcesByRegion(a)
    \/ newS3(a)
    \/ UploadEnvironmentCustomResources(a)
    \/ deployEnvInput(a)
    \/ cleanUpDanglingRoles(a)
    \/ ListRoleTags(a)
    \/ DeleteRole(a)
    \/ DeployAndRenderEnvironment(a)
    \/ GetEnvironment(a)
    \/ CreateEnvironment(a)

Next == \E a \in AttemptIds : Execute(a)

Spec == Init /\ [][Next]_vars

\* The record store alone: application "demo" is registered, "ghost" is not
\* (any more), though a record of it may be left; no attempt runs.
StoreInit ==
    /\ storeApps = [n \in AppNames |->
                      IF n = "demo"
                      THEN [Name |-> n, AccountID |-> AppAccount, Domain |-> ""]
                      ELSE NoApp]
    /\ \E left \in BOOLEAN :
          storeEnvs = [k \in StoreKeys |->
                         IF left /\ k = <<"ghost", EnvNameSeq[1]>>
                         THEN marshal([App |-> k[1], Name |-> k[2], Region |-> envRegion,
                                       AccountID |-> AppAccount, Prod |-> FALSE,
                                       CustomConfig |-> NoCustomConfig])
                         ELSE NoEnv]
    /\ cfnStacks = [st \in StackNames |-> FALSE]
    /\ iamRoles = [r \in RoleNames |-> RoleAbsent]
    /\ InitAttempts({})
    /\ storeCall = NoStoreCall
    /\ cmd = NoCmd /\ render = NoRender

StoreNext ==
    \/ StoreCreateEnvironment
    \/ StoreGetEnvironment
    \/ StoreListEnvironments
    \/ StoreDeleteEnvironment

StoreSpec == StoreInit /\ [][StoreNext]_vars

\* ------------------------------------------------------------------------
\* Before Execute: Validate and Ask of one invocation of `env init`.
\* ------------------------------------------------------------------------
\* The entries a list of subnets, zones or CIDRs is made of.
Ids == <<"id-1", "id-2", "id-3", "id-4">>
Take(k) == SubSeq(Ids, 1, k)

\* A []string flag (StringSliceVar with default nil): left out it is nil, given
\* it is a list, which is empty and not nil for an empty value.
NilSlice == [nil |-> TRUE, elems |-> <<>>]
Slice(l) == [nil |-> FALSE, elems |-> l]
FlagSlices == {NilSlice} \cup {Slice(Take(k)) : k \in 0..MaxItems}
GivenCIDRs == <<"10.0.0.0/24", "10.0.1.0/24">>
\* A list of CIDRs passed by flag: left out, one CIDR, or two.
FlagCIDRs == {NilSlice, Slice(SubSeq(GivenCIDRs, 1, 1)), Slice(GivenCIDRs)}
SliceFields == {"PublicSubnetIDs", "PrivateSubnetIDs", "AZs", "PublicSubnetCIDRs",
                "PrivateSubnetCIDRs"}

flagRegion == "eu-central-1"
sessRegion == "eu-west-1"
selectedVPC == "vpc-selected"
promptedCIDR == "10.1.0.0/16"
\* strings.Split(publicCIDR, ","): the k CIDRs of a prompt's answer.
promptedPublicCIDRs(k) ==
    SubSeq(<<"10.1.0.0/24", "10.1.1.0/24", "10.1.4.0/24", "10.1.5.0/24">>, 1, k)
promptedPrivateCIDRs(k) ==
    SubSeq(<<"10.1.2.0/24", "10.1.3.0/24", "10.1.6.0/24", "10.1.7.0/24">>, 1, k)

NoSess == [nil |-> TRUE]

\* The flags of the two VPC groups.  In one invocation at most one of the
\* groups takes arbitrary values; the other one is left out or given in full.
ImportFlags == {[ID |-> id, pub |-> pub, priv |-> priv] :
                   id \in {"", "vpc-1"}, pub \in FlagSlices, priv \in FlagSlices}
AdjustFlags == {[CIDR |-> cidr, azs |-> azs, pubC |-> pubC, privC |-> privC] :
                   cidr \in {"", "10.0.0.0/16"}, azs \in FlagSlices,
                   pubC \in FlagCIDRs, privC \in FlagCIDRs}
PlainImport == {[ID |-> "", pub |-> NilSlice, priv |-> NilSlice],
                [ID |-> "vpc-1", pub |-> Slice(Take(2)), priv |-> Slice(Take(2))]}
PlainAdjust == {[CIDR |-> "", azs |-> NilSlice, pubC |-> NilSlice, privC |-> NilSlice],
                [CIDR |-> "10.0.0.0/16", azs |-> Slice(Take(2)),
                 pubC |-> Slice(GivenCIDRs), privC |-> Slice(GivenCIDRs)]}
VPCFlags == (ImportFlags \X PlainAdjust) \cup (PlainImport \X AdjustFlags)

\* initEnvVars as the flags set them, with the list fields that are not nil.
FlagsOf(an, n, p, ak, sk, st, r, d, vpc) ==
    [vars |-> [appName |-> an, name |-> n, profile |-> p,
               tempCreds |-> [AccessKeyID |-> ak, SecretAccessKey |-> sk,
                              SessionToken |-> st],
               region |-> r, isProduction |-> FALSE, defaultConfig |-> d,
               importVPC |-> [ID |-> vpc[1].ID, PublicSubnetIDs |-> vpc[1].pub.elems,
                              PrivateSubnetIDs |-> vpc[1].priv.elems],
               adjustVPC |-> [CIDR |-> vpc[2].CIDR, AZs |-> vpc[2].azs.elems,
                              PublicSubnetCIDRs |-> vpc[2].pubC.elems,
                              PrivateSubnetCIDRs |-> vpc[2].privC.elems]],
     nonNil |-> {f \in SliceFields :
                    \/ f = "PublicSubnetIDs" /\ ~vpc[1].pub.nil
                    \/ f = "PrivateSubnetIDs" /\ ~vpc[1].priv.nil
                    \/ f = "AZs" /\ ~vpc[2].azs.nil
                    \/ f = "PublicSubnetCIDRs" /\ ~vpc[2].pubC.nil
                    \/ f = "PrivateSubnetCIDRs" /\ ~vpc[2].privC.nil}]

\* The flags of one invocation.  The credential flags take arbitrary values
\* with the VPC groups left out or given in full, and the VPC groups take
\* arbitrary values with the credential flags left out.
CmdFlags ==
    {FlagsOf(an, n, p, ak, sk, st, r, d, vpc) :
        an \in {"", "demo"}, n \in {"", "test"}, p \in {"", "prof"},
        ak \in {"", "AKIA"}, sk \in {"", "secret"}, st \in {"", "token"},
        r \in {"", flagRegion}, d \in BOOLEAN, vpc \in PlainImport \X PlainAdjust}
    \cup
    {FlagsOf(an, n, "", "", "", "", r, d, vpc) :
        an \in {"", "demo"}, n \in {"", "test"},
        r \in {"", flagRegion}, d \in BOOLEAN, vpc \in VPCFlags}

\* One contact with a collaborator: `by` is the step of Validate or Ask that
\* made it, `kind` the collaborator, `res` what it answered.
Contact(by, kind, op, res) == [by |-> by, kind |-> kind, op |-> op, res |-> res]

CmdStart(f) == [pc |-> "Validate", vars |-> f.vars, nonNil |-> f.nonNil,
                sess |-> NoSess, err |-> NoErr, log |-> <<>>, lookups |-> <<>>,
                flags |-> f]

\* run: a step that returns an error ends the invocation.
Failed(c, e) == [c EXCEPT !.pc = "failed", !.err = e]
Then(c, p) == [c EXCEPT !.pc = p]
Logged(c, ev) == [c EXCEPT !.log = Append(@, ev)]

\* validateDuplicateEnv: o.store.GetEnvironment(o.appName, o.name), made by the
\* step `by`, with the application and the name it is called with.
Lookup(c, by, answer) ==
    [Logged(c, Contact(by, "store", "GetEnvironment", answer)) EXCEPT
        !.lookups = Append(@, [appName |-> c.vars.appName, name |-> c.vars.name,
                               answer |-> answer])]

\* Variant: every error of the lookup counts as "no such environment".
validateDuplicateEnvAnyError(v, answer) ==
    IF answer = "found" THEN <<"environment already exists">> ELSE NoErr

\* initEnvOpts.validateDuplicateEnv: the error, given what GetEnvironment said.
validateDuplicateEnv(v, answer) ==
    IF answer = "found" THEN <<"environment already exists">>
    ELSE IF answer = "ErrNoSuchEnvironment" THEN NoErr
    ELSE Wrap("validate if environment exists", <<"ErrStore">>)

GetEnvironmentAnswers == {"found", "ErrNoSuchEnvironment", "error"}

bothVPCFlagsAccepted(v) == NoErr

\* initEnvOpts.validateCustomizedResources: its first check.
bothVPCFlags(v) ==
    IF importVPCIsSet(v.importVPC) /\ adjustVPCIsSet(v.adjustVPC)
    THEN <<"cannot specify both import vpc flags and configure vpc flags">>
    ELSE NoErr

\* initEnvOpts.validateCustomizedResources
validateCustomizedResources(v) ==
    IF bothVPCFlags(v) # NoErr THEN bothVPCFlags(v)
    ELSE IF (importVPCIsSet(v.importVPC) \/ adjustVPCIsSet(v.adjustVPC)) /\ v.defaultConfig
    THEN <<"cannot import or configure vpc if --default-config is set">>
    ELSE IF importVPCIsSet(v.importVPC) /\ Len(v.importVPC.PublicSubnetIDs) = 1
    THEN <<"at least two public subnets must be imported to enable Load Balancing">>
    ELSE IF importVPCIsSet(v.importVPC) /\ Len(v.importVPC.PrivateSubnetIDs) = 1
    THEN <<"at least two private subnets must be imported">>
    ELSE IF adjustVPCIsSet(v.adjustVPC) /\ Len(v.adjustVPC.AZs) = 1
    THEN <<"at least two availability zones must be provided to enable Load Balancing">>
    ELSE NoErr

sessionTokenUnchecked(v) == NoErr

\* initEnvOpts.validateCredentials: its last check.
sessionTokenWithProfile(v) ==
    IF v.profile # "" /\ v.tempCreds.SessionToken # ""
    THEN <<"cannot specify both --profile and --aws-session-token">>
    ELSE NoErr

\* initEnvOpts.validateCredentials
validateCredentials(v) ==
    IF v.profile # "" /\ v.tempCreds.AccessKeyID # ""
    THEN <<"cannot specify both --profile and --aws-access-key-id">>
    ELSE IF v.profile # "" /\ v.tempCreds.SecretAccessKey # ""
    THEN <<"cannot specify both --profile and --aws-secret-access-key">>
    ELSE sessionTokenWithProfile(v)

duplicateEnvIgnored(c, e) == c

\* Validate: `if err := o.validateDuplicateEnv(); err != nil { return err }`.
duplicateEnvChecked(c, e) == IF e # NoErr THEN Failed(c, e) ELSE c

\* initEnvOpts.Validate
Validate(c, answer) ==
    LET named == IF c.vars.name # ""
                 THEN duplicateEnvChecked(Lookup(c, "Validate", answer),
                                          validateDuplicateEnv(c.vars, answer))
                 ELSE c
        custom == validateCustomizedResources(c.vars)
        creds == validateCredentials(c.vars)
    IN  IF named.pc = "failed" THEN named
        ELSE IF custom # NoErr THEN Failed(named, custom)
        ELSE IF creds # NoErr THEN Failed(named, creds)
        ELSE Then(named, "askAppName")

CmdValidate ==
    /\ cmd.pc = "Validate"
    /\ \E answer \in GetEnvironmentAnswers : cmd' = Validate(cmd, answer)
    /\ UNCHANGED <<coreVars, render>>

\* What a prompt or a selector answers: a value, or an error.
Answered(x) == [ok |-> TRUE, value |-> x]
NoAnswer == [ok |-> FALSE, value |-> ""]
Outcome(ans) == IF ans.ok THEN "ok" ELSE "error"

\* initEnvOpts.askAppName
askAppName(c, ans) ==
    IF c.vars.appName # "" THEN Then(c, "askEnvName")
    ELSE LET l == Logged(c, Contact("askAppName", "selector", "selApp.Application",
                                    Outcome(ans)))
         IN  IF ~ans.ok THEN Failed(l, Wrap("ask for application", <<"ErrSelect">>))
             ELSE Then([l EXCEPT !.vars.appName = ans.value], "askEnvName")

CmdAskAppName ==
    /\ cmd.pc = "askAppName"
    /\ \E ans \in {Answered("demo"), NoAnswer} : cmd' = askAppName(cmd, ans)
    /\ UNCHANGED <<coreVars, render>>

\* initEnvOpts.askEnvName
askEnvName(c, ans, answer) ==
    IF c.vars.name # "" THEN Then(c, "askEnvSession")
    ELSE LET l == Logged(c, Contact("askEnvName", "prompt", "Get name", Outcome(ans)))
             n == [l EXCEPT !.vars.name = ans.value]
             g == Lookup(n, "askEnvName", answer)
             e == validateDuplicateEnv(n.vars, answer)
         IN  IF ~ans.ok THEN Failed(l, Wrap("get environment name", <<"ErrPrompt">>))
             ELSE IF e # NoErr THEN Failed(g, e)
             ELSE Then(g, "askEnvSession")

CmdAskEnvName ==
    /\ cmd.pc = "askEnvName"
    /\ \E ans \in {Answered("test"), NoAnswer}, answer \in GetEnvironmentAnswers :
          cmd' = askEnvName(cmd, ans, answer)
    /\ UNCHANGED <<coreVars, render>>

\* tempCredsVars.isSet
tempCredsIsSet(t) == t.AccessKeyID # "" /\ t.SecretAccessKey # ""

\* askEnvSession: the source of the session its branches pick.
sessionSource(v) ==
    IF v.profile # "" THEN "FromProfile"
    ELSE IF tempCredsIsSet(v.tempCreds) THEN "FromStaticCreds"
    ELSE "Creds"

\* askEnvSession: the error returned when the source fails.
sessionError(source) ==
    IF source = "FromProfile" THEN Wrap("create session from profile", <<"ErrSession">>)
    ELSE IF source = "FromStaticCreds" THEN <<"ErrSession">>
    ELSE Wrap("select creds", <<"ErrSession">>)

SessionContact(source, res) ==
    Contact("askEnvSession", IF source = "Creds" THEN "selector" ELSE "session",
            source, res)

\* A session: where it came from, the region it was made with and its region.
Session(source, region) == [source |-> source, Default |-> region, Region |-> region]

sessionFailedFallsBack(c, e) ==
    Then([Logged(c, SessionContact("Creds", "ok")) EXCEPT !.sess = Session("Creds", "")],
         "askEnvRegion")

\* askEnvSession: `if err != nil { return ... }` of each branch.
sessionFailed(c, e) == Failed(c, e)

\* initEnvOpts.askEnvSession
askEnvSession(c, ans) ==
    LET source == sessionSource(c.vars)
        l == Logged(c, SessionContact(source, Outcome(ans)))
    IN  IF ~ans.ok THEN sessionFailed(l, sessionError(source))
        ELSE Then([l EXCEPT !.sess = Session(source, ans.value)], "askEnvRegion")

CmdAskEnvSession ==
    /\ cmd.pc = "askEnvSession"
    /\ \E ans \in {Answered(""), Answered(sessRegion), NoAnswer} :
          cmd' = askEnvSession(cmd, ans)
    /\ UNCHANGED <<coreVars, render>>

regionSessionFirst(sessDefault, flag) == IF sessDefault # "" THEN sessDefault ELSE flag

\* askEnvRegion: the region before the prompt.
regionOf(sessDefault, flag) == IF flag # "" THEN flag ELSE sessDefault

\* initEnvOpts.askEnvRegion
askEnvRegion(c, ans) ==
    LET region == regionOf(c.sess.Region, c.vars.region)
        l == Logged(c, Contact("askEnvRegion", "prompt", "Get region", Outcome(ans)))
    IN  IF region # "" THEN Then([c EXCEPT !.sess.Region = region], "askCustomizedResources")
        ELSE IF ~ans.ok THEN Failed(l, Wrap("get environment region", <<"ErrPrompt">>))
        ELSE Then([l EXCEPT !.sess.Region = ans.value], "askCustomizedResources")

CmdAskEnvRegion ==
    /\ cmd.pc = "askEnvRegion"
    /\ \E ans \in {Answered(envRegion), NoAnswer} : cmd' = askEnvRegion(cmd, ans)
    /\ UNCHANGED <<coreVars, render>>

\* The steps that make up askCustomizedResources.
ResolverSteps == {"askCustomizedResources", "askImportResources",
                  "askAdjustResources", "askAZs"}

\* initEnvOpts.askCustomizedResources, up to the mode it resolves.
askCustomizedResources(c, ans) ==
    LET l == Logged(c, Contact("askCustomizedResources", "prompt", "SelectOne",
                               IF ans.ok THEN ans.value ELSE "error"))
    IN  IF c.vars.defaultConfig THEN Then(c, "Execute")
        ELSE IF importVPCIsSet(c.vars.importVPC) THEN Then(c, "askImportResources")
        ELSE IF adjustVPCIsSet(c.vars.adjustVPC) THEN Then(c, "askAdjustResources")
        ELSE IF ~ans.ok
        THEN Failed(l, Wrap("select adjusting or importing resources", <<"ErrPrompt">>))
        ELSE IF ans.value = "import" THEN Then(l, "askImportResources")
        ELSE IF ans.value = "adjust" THEN Then(l, "askAdjustResources")
        ELSE Then(l, "Execute")

CmdAskCustomizedResources ==
    /\ cmd.pc = "askCustomizedResources"
    /\ \E ans \in {Answered("default"), Answered("adjust"), Answered("import"), NoAnswer} :
          cmd' = askCustomizedResources(cmd, ans)
    /\ UNCHANGED <<coreVars, render>>

notNilNever(c, f) == FALSE

\* `o.importVPC.PublicSubnetIDs == nil` and the like: the list field is not nil.
notNil(c, f) == f \in c.nonNil

\* Assigning a list to a list field.
Assigned(nonNil, f, s) == IF s.nil THEN nonNil \ {f} ELSE nonNil \cup {f}

\* What selVPC.Subnets answers: a selection, no subnet at all, or an error.
SubnetsAnswers ==
    {[res |-> "ok", s |-> Slice(Take(k))] : k \in 0..MaxItems}
    \cup {[res |-> "ErrSubnetsNotFound", s |-> NilSlice], [res |-> "error", s |-> NilSlice]}

ImportAnswers ==
    [vpc : {"ok", "ErrVPCNotFound", "error"}, dns : {"yes", "no", "error"},
     pub : SubnetsAnswers, priv : SubnetsAnswers]

\* initEnvOpts.askImportResources
askImportResources(c, ans) ==
    LET by == "askImportResources"
        vpc == Logged(c, Contact(by, "selector", "selVPC.VPC", ans.vpc))
        c1 == IF c.vars.importVPC.ID # "" THEN c
              ELSE IF ans.vpc # "ok" THEN Failed(vpc, Wrap("select VPC", <<ans.vpc>>))
              ELSE [vpc EXCEPT !.vars.importVPC.ID = selectedVPC]
        dns == Logged(c1, Contact(by, "ec2", "HasDNSSupport", ans.dns))
        c2 == IF c1.pc = "failed" THEN c1
              ELSE IF ans.dns = "error"
              THEN Failed(dns, Wrap("check if VPC has DNS support enabled", <<"ErrEC2">>))
              ELSE IF ans.dns = "no" THEN Failed(dns, <<"VPC has no DNS support enabled">>)
              ELSE dns
        pub == Logged(c2, Contact(by, "selector", "selVPC.Subnets public", ans.pub.res))
        warned == IF ans.pub.res = "ErrSubnetsNotFound"
                  THEN Logged(pub, Contact(by, "log", "Warningf", "no public subnets"))
                  ELSE pub
        c3 == IF c2.pc = "failed" \/ notNil(c2, "PublicSubnetIDs") THEN c2
              ELSE IF ans.pub.res = "error"
              THEN Failed(pub, Wrap("select public subnets", <<"ErrSelect">>))
              ELSE IF Len(ans.pub.s.elems) = 1
              THEN Failed(warned, <<"select public subnets: at least two public subnets must be selected to enable Load Balancing">>)
              ELSE [warned EXCEPT !.vars.importVPC.PublicSubnetIDs = ans.pub.s.elems,
                                  !.nonNil = Assigned(@, "PublicSubnetIDs", ans.pub.s)]
        priv == Logged(c3, Contact(by, "selector", "selVPC.Subnets private", ans.priv.res))
        c4 == IF c3.pc = "failed" \/ notNil(c3, "PrivateSubnetIDs") THEN c3
              ELSE IF ans.priv.res # "ok"
              THEN Failed(priv, Wrap("select private subnets", <<ans.priv.res>>))
              ELSE IF Len(ans.priv.s.elems) < 2
              THEN Failed(priv, <<"select private subnets: at least two private subnets must be selected">>)
              ELSE [priv EXCEPT !.vars.importVPC.PrivateSubnetIDs = ans.priv.s.elems,
                                !.nonNil = Assigned(@, "PrivateSubnetIDs", ans.priv.s)]
    IN  IF c4.pc = "failed" THEN c4 ELSE Then(c4, "Execute")

CmdAskImportResources ==
    /\ cmd.pc = "askImportResources"
    /\ \E ans \in ImportAnswers : cmd' = askImportResources(cmd, ans)
    /\ UNCHANGED <<coreVars, render>>

minAZs == 2

\* What ListAZs and the selection of zones answer: the zones of the region,
\* and the number of them selected (prompt.RequireMinItems(minAZs)).
AZsAnswers ==
    {[list |-> "error", n |-> 0, sel |-> "none", k |-> 0]}
    \cup {[list |-> "ok", n |-> n, sel |-> "none", k |-> 0] : n \in 0..(minAZs - 1)}
    \cup {[list |-> "ok", n |-> n, sel |-> "error", k |-> 0] : n \in minAZs..MaxItems}
    \cup {[list |-> "ok", n |-> n, sel |-> "ok", k |-> k] :
             n \in minAZs..MaxItems, k \in minAZs..MaxItems}

\* initEnvOpts.askAZs: the invocation after it and the zones it returns.
askAZs(c, ans) ==
    LET by == "askAZs"
        list == Logged(c, Contact(by, "ec2", "ListAZs",
                                  IF ans.list = "ok" THEN ToString(ans.n) ELSE "error"))
        sel == Logged(list, Contact(by, "prompt", "MultiSelect", ans.sel))
    IN  IF notNil(c, "AZs") THEN [c |-> c, azs |-> Slice(c.vars.adjustVPC.AZs)]
        ELSE IF ans.list = "error"
        THEN [c |-> Failed(list, <<"list availability zones", "ErrEC2">>), azs |-> NilSlice]
        ELSE IF ans.n < minAZs
        THEN [c |-> Failed(list, <<"requires at least 2 availability zones">>),
              azs |-> NilSlice]
        ELSE IF ans.sel = "error"
        THEN [c |-> Failed(sel, <<"select availability zones", "ErrPrompt">>),
              azs |-> NilSlice]
        ELSE [c |-> sel, azs |-> Slice(Take(ans.k))]

\* validatePublicSubnetsCIDR(numAZs) and validatePrivateSubnetsCIDR(numAZs),
\* the validators of the two CIDR prompts: one CIDR for each zone.
validateSubnetsCIDR(numAZs, cidrs) == Len(cidrs) = numAZs

\* prompt.Get does not return an answer its validator rejects.
Rejected(c) == [c EXCEPT !.pc = "rejected"]
Stopped(c) == c.pc \in {"failed", "rejected"}

\* What the prompts of askAdjustResources answer; pubC and privC are the
\* number of CIDRs typed in, 0 for a prompt that ends with an error.
AdjustAnswers ==
    [cidr : {"ok", "unparsable", "error"}, azs : {a \in AZsAnswers : a.k <= a.n},
     pubC : 0..MaxItems, privC : 0..MaxItems]

\* initEnvOpts.askAdjustResources
askAdjustResources(c, ans) ==
    LET by == "askAdjustResources"
        cidr == Logged(c, Contact(by, "prompt", "Get VPC CIDR", ans.cidr))
        c1 == IF c.vars.adjustVPC.CIDR # "" THEN c
              ELSE IF ans.cidr = "error"
              THEN Failed(cidr, Wrap("get VPC CIDR", <<"ErrPrompt">>))
              ELSE IF ans.cidr = "unparsable"
              THEN Failed(cidr, Wrap("parse VPC CIDR", <<"ErrParse">>))
              ELSE [cidr EXCEPT !.vars.adjustVPC.CIDR = promptedCIDR]
        zones == askAZs(c1, ans.azs)
        c2 == IF c1.pc = "failed" THEN c1
              ELSE IF zones.c.pc = "failed" THEN zones.c
              ELSE [zones.c EXCEPT !.vars.adjustVPC.AZs = zones.azs.elems,
                                   !.nonNil = Assigned(@, "AZs", zones.azs)]
        pubC == Logged(c2, Contact(by, "prompt", "Get public subnet CIDRs",
                                   IF ans.pubC > 0 THEN "ok" ELSE "error"))
        c3 == IF c2.pc = "failed" \/ notNil(c2, "PublicSubnetCIDRs") THEN c2
              ELSE IF ans.pubC = 0
              THEN Failed(pubC, Wrap("get public subnet CIDRs", <<"ErrPrompt">>))
              ELSE IF ~validateSubnetsCIDR(Len(c2.vars.adjustVPC.AZs),
                                           promptedPublicCIDRs(ans.pubC))
              THEN Rejected(c2)
              ELSE [pubC EXCEPT !.vars.adjustVPC.PublicSubnetCIDRs =
                                     promptedPublicCIDRs(ans.pubC),
                                !.nonNil = @ \cup {"PublicSubnetCIDRs"}]
        privC == Logged(c3, Contact(by, "prompt", "Get private subnet CIDRs",
                                    IF ans.privC > 0 THEN "ok" ELSE "error"))
        c4 == IF Stopped(c3) \/ notNil(c3, "PrivateSubnetCIDRs") THEN c3
              ELSE IF ans.privC = 0
              THEN Failed(privC, Wrap("get private subnet CIDRs", <<"ErrPrompt">>))
              ELSE IF ~validateSubnetsCIDR(Len(c3.vars.adjustVPC.AZs),
                                           promptedPrivateCIDRs(ans.privC))
              THEN Rejected(c3)
              ELSE [privC EXCEPT !.vars.adjustVPC.PrivateSubnetCIDRs =
                                      promptedPrivateCIDRs(ans.privC),
                                 !.nonNil = @ \cup {"PrivateSubnetCIDRs"}]
    IN  IF Stopped(c4) THEN c4 ELSE Then(c4, "Execute")

CmdAskAdjustResources ==
    /\ cmd.pc = "askAdjustResources"
    /\ \E ans \in AdjustAnswers :
          /\ askAdjustResources(cmd, ans).pc # "rejected"
          /\ cmd' = askAdjustResources(cmd, ans)
    /\ UNCHANGED <<coreVars, render>>

\* One invocation: the collaborators of Execute are left alone.
CmdInit ==
    /\ storeApps = [n \in AppNames |-> NoApp]
    /\ storeEnvs = [k \in EnvKeys |-> NoEnv]
    /\ cfnStacks = [st \in StackNames |-> FALSE]
    /\ iamRoles = [r \in RoleNames |-> RoleAbsent]
    /\ InitAttempts({})
    /\ storeCall = NoStoreCall
    /\ render = NoRender
    /\ \E f \in CmdFlags : cmd = CmdStart(f)

CmdNext ==
    \/ CmdValidate
    \/ CmdAskAppName
    \/ CmdAskEnvName
    \/ CmdAskEnvSession
    \/ CmdAskEnvRegion
    \/ CmdAskCustomizedResources
    \/ CmdAskImportResources
    \/ CmdAskAdjustResources

CmdSpec == CmdInit /\ [][CmdNext]_vars

\* ------------------------------------------------------------------------
\* Rendering a workload template (package template).
\* ------------------------------------------------------------------------
\* Template names under "workloads/partials/cf/".
partialsWorkloadCFTemplateNames ==
    <<"loggroup", "envvars-container", "envvars-common", "secrets", "executionrole",
      "taskrole", "workload-container", "fargate-taskdef-base-properties",
      "service-base-properties", "servicediscovery", "addons", "sidecars", "logconfig",
      "autoscaling", "eventrule", "state-machine", "state-machine-definition.json",
      "efs-access-point", "env-controller", "mount-points", "volumes", "image-overrides",
      "instancerole", "accessrole", "publish", "subscribe", "nlb", "vpc-connector">>

PublicSubnetsPlacement == "PublicSubnets"
PrivateSubnetsPlacement == "PrivateSubnets"
lbWebSvcTplName == "lb-web"

NoStorage == [nil |-> TRUE]
NoManagedVolume == [nil |-> TRUE]
NoNLB == [nil |-> TRUE]
NoContent == [nil |-> TRUE]
\* &Content{buf}
Content(buf) == [Buffer |-> buf]

\* StorageOpts.requiresEFSCreation
requiresEFSCreation(s) == s.ManagedVolumeInfo # NoManagedVolume

envControllerParametersStorageFirst(opts) ==
    (IF opts.Storage # NoStorage /\ requiresEFSCreation(opts.Storage)
     THEN <<"EFSWorkloads,">> ELSE <<>>)
    \o (IF opts.WorkloadType = "Load Balanced Web Service"
        THEN <<"ALBWorkloads,", "Aliases,">> ELSE <<>>)
    \o (IF opts.Network.SubnetsType = PrivateSubnetsPlacement
        THEN <<"NATWorkloads,">> ELSE <<>>)

\* envControllerParameters
envControllerParameters(opts) ==
    LET parameters == <<>>
        lb == IF opts.WorkloadType = "Load Balanced Web Service"
              THEN parameters \o <<"ALBWorkloads,", "Aliases,">>
              ELSE parameters
        nat == IF opts.Network.SubnetsType = PrivateSubnetsPlacement
               THEN Append(lb, "NATWorkloads,")
               ELSE lb
        efs == IF opts.Storage # NoStorage /\ requiresEFSCreation(opts.Storage)
               THEN Append(nat, "EFSWorkloads,")
               ELSE nat
    IN  efs

\* WorkloadOpts: the fields the rendering below reads.
WorkloadOptsSet ==
    {[WorkloadType |-> wt, Network |-> [SubnetsType |-> st], Storage |-> s, NLB |-> nlb] :
        wt \in {"Load Balanced Web Service", "Backend Service"},
        st \in {PublicSubnetsPlacement, PrivateSubnetsPlacement},
        s \in {NoStorage, [ManagedVolumeInfo |-> NoManagedVolume],
               [ManagedVolumeInfo |-> [DirName |-> "svc"]]},
        nlb \in {NoNLB, [Listener |-> [Port |-> "443", Protocol |-> "TLS"]]}}

\* The base document of a workload: the fragments it includes, by name, in
\* order.  "undeclared" is a name no fragment of the catalog has.
RefNames == {"env-controller", "nlb", "undeclared"}
BaseDocuments == UNION {[1..n -> RefNames] : n \in 0..MaxRefs}

Names(seq) == {seq[i] : i \in DOMAIN seq}

\* What executing one included fragment writes.
Rendered(ref, data) ==
    IF ref = "env-controller" THEN <<ref>> \o envControllerParameters(data) ELSE <<ref>>

\* tpl.Execute(buf, data): the fragments are executed in order and written to
\* the buffer; a name without a parse tree, or a field of a nil struct (nlb.yml
\* reads .NLB.Listener), stops the execution with what was written so far.
RECURSIVE execute(_, _, _, _)
execute(refs, tree, data, buf) ==
    IF refs = <<>> THEN [buf |-> buf, err |-> NoErr]
    ELSE IF Head(refs) \notin Names(tree)
    THEN [buf |-> buf, err |-> <<"no template associated", Head(refs)>>]
    ELSE IF Head(refs) = "nlb" /\ data.NLB = NoNLB
    THEN [buf |-> buf, err |-> <<"nil pointer evaluating .NLB.Listener">>]
    ELSE execute(Tail(refs), tree, data, Append(buf, Rendered(Head(refs), data)))

NoFailure == [step |-> "", name |-> ""]
Failure(step, name) == [step |-> step, name |-> name]

RenderStart(doc, data) ==
    [pc |-> "parseBase", name |-> lbWebSvcTplName, doc |-> doc, data |-> data, i |-> 1,
     tree |-> <<>>, executed |-> FALSE, buf |-> <<>>, content |-> NoContent,
     err |-> NoErr, failure |-> NoFailure]

renderReturn(r, content, e) == [r EXCEPT !.pc = "done", !.content = content, !.err = e]

\* parseWkld: t.parse("base", ...) and its `if err != nil`.
ParseBase ==
    /\ render.pc = "parseBase"
    /\ \/ render' = [render EXCEPT !.pc = "partials"]
       \/ render' = renderReturn([render EXCEPT !.failure = Failure("parse", "base")],
                                 NoContent, <<"ErrParse", "base">>)
    /\ UNCHANGED <<coreVars, cmd>>

\* parseWkld: one round of the loop over partialsWorkloadCFTemplateNames.
ParsePartial ==
    /\ render.pc = "partials"
    /\ LET templateName == partialsWorkloadCFTemplateNames[render.i]
           last == render.i = Len(partialsWorkloadCFTemplateNames)
       IN  \/ render' = [render EXCEPT !.tree = Append(@, templateName),
                                       !.i = @ + 1,
                                       !.pc = IF last THEN "execute" ELSE "partials"]
           \/ render' = renderReturn(
                            [render EXCEPT !.failure = Failure("parse", templateName)],
                            NoContent, <<"ErrParse", templateName>>)
           \/ render' = renderReturn(
                            [render EXCEPT !.failure = Failure("attach", templateName)],
                            NoContent,
                            Wrap("add parse tree to base template",
                                 <<"ErrAddParseTree", templateName>>))
    /\ UNCHANGED <<coreVars, cmd>>

executeResultPartial(buf, e) ==
    [content |-> Content(buf),
     err |-> IF e # NoErr THEN Wrap("execute template", e) ELSE NoErr]

\* parseWkld: what it returns after tpl.Execute.
executeResult(buf, e) ==
    IF e # NoErr THEN [content |-> NoContent, err |-> Wrap("execute template", e)]
    ELSE [content |-> Content(buf), err |-> NoErr]

\* parseWkld: tpl.Execute(buf, data) and the return.
ExecuteTemplate ==
    /\ render.pc = "execute"
    /\ LET x == execute(render.doc, render.tree, render.data, <<<<"base">>>>)
           res == executeResult(x.buf, x.err)
           r == [render EXCEPT !.executed = TRUE, !.buf = x.buf,
                               !.failure = IF x.err # NoErr THEN Failure("execute", "base")
                                           ELSE @]
       IN  render' = renderReturn(r, res.content, res.err)
    /\ UNCHANGED <<coreVars, cmd>>

RenderInit ==
    /\ storeApps = [n \in AppNames |-> NoApp]
    /\ storeEnvs = [k \in EnvKeys |-> NoEnv]
    /\ cfnStacks = [st \in StackNames |-> FALSE]
    /\ iamRoles = [r \in RoleNames |-> RoleAbsent]
    /\ InitAttempts({})
    /\ storeCall = NoStoreCall
    /\ cmd = NoCmd
    /\ \E doc \in BaseDocuments, data \in WorkloadOptsSet : render = RenderStart(doc, data)

RenderNext ==
    \/ ParseBase
    \/ ParsePartial
    \/ ExecuteTemplate

RenderSpec == RenderInit /\ [][RenderNext]_vars

\* ------------------------------------------------------------------------
\* Reading the history of an attempt.
\* ------------------------------------------------------------------------
Idx(a, op) == {i \in DOMAIN calls[a] : calls[a][i].op = op}
Has(a, op) == \E i \in DOMAIN calls[a] : calls[a][i].op = op
\* The first position of a call `op`.
Pos(a, op) ==
    CHOOSE i \in DOMAIN calls[a] :
        /\ calls[a][i].op = op
        /\ \A j \in 1..(i - 1) : calls[a][j].op # op
Answer(a, op) == IF Has(a, op) THEN calls[a][Pos(a, op)].res ELSE "none"
Done(a) == pc[a] = "done"
envRoles(a) == {roleNames(o[a].appName, o[a].name)[1],
                roleNames(o[a].appName, o[a].name)[2]}
\* The position of the deployer's invocation; past the end if there is none.
DeployPos(a) ==
    IF Has(a, "DeployAndRenderEnvironment")
    THEN Pos(a, "DeployAndRenderEnvironment") ELSE Len(calls[a]) + 1
\* The positions of the calls `op` on role r before / after the deployer's invocation.
PreCalls(a, op, r) ==
    LET d == DeployPos(a) IN
    {i \in 1..(d - 1) : calls[a][i].op = op /\ calls[a][i].role = r}
PostCalls(a, op, r) ==
    LET d == DeployPos(a) IN
    {i \in (d + 1)..Len(calls[a]) : calls[a][i].op = op /\ calls[a][i].role = r}
RoleCalls(a, op, r) ==
    {i \in DOMAIN calls[a] : calls[a][i].op = op /\ calls[a][i].role = r}
\* The deployer answered "stack already exists" / another error (deployEnv's err).
DeployAnsweredExists(a) == deployErr[a] = ErrStackAlreadyExists
DeployFailed(a) == deployErr[a] \in DeployFailures
\* A listing that answered and showed the copilot-environment tag.
ShowsTag(res) == res \notin {"error", "noTag"}

\* ------------------------------------------------------------------------
\* Claims.
\* ------------------------------------------------------------------------

\* C1: if store.GetApplication fails, Execute returns that very error at
\* once and the attempt makes no other call: the failed lookup is its whole
\* history.
C1_PrecheckFailureStops ==
    \A a \in AttemptIds :
        Answer(a, "GetApplication") = "error" =>
            /\ Done(a)
            /\ Len(calls[a]) = 1
            /\ err[a] \in getApplicationErrs(o[a].appName) \ {NoErr}

C1_Witness ==
    \E a \in AttemptIds :
        /\ Done(a)
        /\ calls[a] = <<Ev("GetApplication", "error")>>
        /\ err[a] = <<"ErrNoSuchApplication">>

\* C2: the external steps of Execute happen at most once each, in the fixed
\* order, none without the mandatory ones before it (DNS delegation is
\* optional); the deployer is invoked only after AddEnvToApp and the upload
\* of the custom resources both succeeded, with the uploaded URLs.
StepOrder == <<"GetApplication", "DelegateDNSPermissions",
               "CreateECSServiceLinkedRole", "AddEnvToApp",
               "UploadEnvironmentCustomResources", "DeployAndRenderEnvironment",
               "GetEnvironment", "CreateEnvironment">>
Steps == {StepOrder[i] : i \in DOMAIN StepOrder}
Rank(op) == CHOOSE i \in DOMAIN StepOrder : StepOrder[i] = op
\* The listed steps of an attempt, in the order they were made.
StepsMade(a) == SelectSeq(calls[a], LAMBDA e : e.op \in Steps)

C2_StepsOnceInOrder ==
    \A a \in AttemptIds :
        LET made == StepsMade(a) IN
        /\ Len(made) > 0 => made[1].op = "GetApplication"
        /\ \A i \in 1..(Len(made) - 1) :
              \* the next listed step is the next of the fixed order (DNS
              \* delegation may be left out), and the one before it succeeded
              /\ \/ Rank(made[i + 1].op) = Rank(made[i].op) + 1
                 \/ /\ made[i].op = "GetApplication"
                    /\ made[i + 1].op = "CreateECSServiceLinkedRole"
              /\ made[i].op # "CreateECSServiceLinkedRole" =>
                    made[i].res \in {"ok", "alreadyExists"}
        /\ pc[a] = "DeployAndRenderEnvironment" =>
              /\ Answer(a, "AddEnvToApp") = "ok"
              /\ Answer(a, "UploadEnvironmentCustomResources") = "ok"
              /\ deployInput[a].CustomResourcesURLs = UploadedURLs

C2_Witness ==
    \E a \in AttemptIds :
        /\ Done(a) /\ err[a] = NoErr
        /\ Len(StepsMade(a)) = Len(StepOrder)

\* C3: the record store changes only in the CreateEnvironment step of an
\* attempt whose deployment answered success or "stack already exists" and
\* whose GetEnvironment succeeded, and that step ends the attempt without
\* error; so an attempt that returns an error never wrote a record.
C3_NoPartialStatePersisted ==
    [][\A k \in EnvKeys :
          storeEnvs'[k] # storeEnvs[k] =>
              \E a \in AttemptIds :
                  /\ pc[a] = "CreateEnvironment" /\ pc'[a] = "done"
                  /\ Answer(a, "DeployAndRenderEnvironment") \in {"ok", "alreadyExists"}
                  /\ Answer(a, "GetEnvironment") = "ok"
                  /\ err'[a] = NoErr
                  /\ k = <<o[a].appName, o[a].name>>
                  /\ storeEnvs[k] = NoEnv
                  /\ storeEnvs'[k] = marshal(env[a])]_vars

C3_Witness ==
    \E a \in AttemptIds :
        /\ Done(a) /\ err[a] = NoErr
        /\ env[a] # NoEnv
        /\ storeEnvs[<<o[a].appName, o[a].name>>] = marshal(env[a])

\* C4: after the deployer answered "stack already exists", deployEnv returns
\* nil: the next call of the attempt is GetEnvironment, then CreateEnvironment,
\* as after a successful deployment, and no error of the attempt is the
\* deployer's.
C4_AlreadyExistsIsSuccess ==
    \A a \in AttemptIds :
        DeployAnsweredExists(a) =>
            LET d == DeployPos(a) IN
            /\ calls[a][d].res = "alreadyExists"
            /\ pc[a] \in {"GetEnvironment", "CreateEnvironment", "done"}
            /\ pc[a] # "GetEnvironment" => calls[a][d + 1].op = "GetEnvironment"
            /\ (Done(a) /\ calls[a][d + 1].res = "ok") =>
                  calls[a][d + 2].op = "CreateEnvironment"
            /\ Done(a) => err[a] # ErrStackAlreadyExists

C4_Witness ==
    \E a \in AttemptIds :
        /\ DeployAnsweredExists(a)
        /\ Done(a) /\ err[a] = NoErr
        /\ Answer(a, "CreateEnvironment") = "ok"
        /\ storeEnvs[<<o[a].appName, o[a].name>>] = marshal(env[a])

C6_Original ==
    \A a \in AttemptIds :
        (Done(a) /\ DeployFailed(a)) =>
            \A r \in envRoles(a) :
                Cardinality(RoleCalls(a, "DeleteRole", r)) =
                    IF \E i \in RoleCalls(a, "ListRoleTags", r) : ShowsTag(calls[a][i].res)
                    THEN 1 ELSE 0

\* C6, amended: the failed deployment is followed by exactly one tag listing
\* per role and by exactly one DeleteRole call for each role whose listing
\* answers and shows the tag (none for the others); over the whole attempt a
\* role gets one further DeleteRole call when the pre-deploy cleanup listed
\* it with the tag, so at most two.
C6_OneCleanupPerTaggedRoleAfterFailure ==
    \A a \in AttemptIds :
        (Done(a) /\ DeployFailed(a)) =>
            LET d == DeployPos(a)
                n == Len(calls[a])
                Listed(i, r) == calls[a][i].op = "ListRoleTags" /\ calls[a][i].role = r
                Deleted(i, r) == calls[a][i].op = "DeleteRole" /\ calls[a][i].role = r
            IN
            \A r \in envRoles(a) :
                \* after the failure: one listing, and one deletion iff it shows the tag
                /\ \E i \in (d + 1)..n :
                      /\ Listed(i, r)
                      /\ \A j \in (d + 1)..n : Listed(j, r) => j = i
                      /\ ShowsTag(calls[a][i].res) =>
                            \E k \in (d + 1)..n :
                                /\ Deleted(k, r)
                                /\ \A j \in (d + 1)..n : Deleted(j, r) => j = k
                      /\ ~ShowsTag(calls[a][i].res) =>
                            \A j \in (d + 1)..n : ~Deleted(j, r)
                \* before the deployment: at most one deletion, after a listing with the tag
                /\ \A k \in 1..(d - 1) :
                      Deleted(k, r) =>
                          /\ \A j \in 1..(d - 1) : Deleted(j, r) => j = k
                          /\ \E i \in 1..(d - 1) :
                                Listed(i, r) /\ ShowsTag(calls[a][i].res)
                /\ \A i \in 1..(d - 1) :
                      (Listed(i, r) /\ ShowsTag(calls[a][i].res)) =>
                          \E k \in 1..(d - 1) : Deleted(k, r)

C6_Witness ==
    \E a \in AttemptIds :
        /\ Done(a) /\ DeployFailed(a)
        /\ \E r \in envRoles(a) : Cardinality(RoleCalls(a, "DeleteRole", r)) = 2

\* C7: after a deployment failure other than "stack already exists" the role
\* cleanup runs before Execute returns (the attempt is in the cleanup until
\* it is done, and both roles have been listed by then), and Execute returns
\* the deployer's own error, unwrapped, whatever the cleanup calls answered.
C7_CleanupThenOriginalError ==
    \A a \in AttemptIds :
        DeployFailed(a) =>
            /\ pc[a] \in {"ListRoleTags", "DeleteRole", "done"}
            /\ Done(a) =>
                  LET d == DeployPos(a) IN
                  /\ calls[a][d].res = "error"
                  /\ err[a] = deployErr[a]
                  /\ \A r \in envRoles(a) :
                        \E i \in (d + 1)..Len(calls[a]) :
                            calls[a][i].op = "ListRoleTags" /\ calls[a][i].role = r
                  /\ \A i \in (d + 1)..Len(calls[a]) :
                        calls[a][i].op \in {"ListRoleTags", "DeleteRole"}

C7_Witness ==
    \E a \in AttemptIds :
        /\ Done(a) /\ DeployFailed(a)
        /\ err[a] = deployErr[a]
        /\ \E r \in envRoles(a) :
              /\ \E i \in PostCalls(a, "DeleteRole", r) : calls[a][i].res = "error"
              /\ \E i \in PostCalls(a, "ListRoleTags", r) : calls[a][i].res # "error"
        /\ \E r \in envRoles(a) :
              \E i \in PostCalls(a, "ListRoleTags", r) : calls[a][i].res = "error"

\* C8 as stated: DeleteRole is called on a role only if the listing just
\* before showed a tag marking the role as created for this very environment.
C8_Original ==
    \A a \in AttemptIds :
        \A i \in DOMAIN calls[a] :
            calls[a][i].op = "DeleteRole" =>
                /\ i > 1
                /\ calls[a][i - 1].op = "ListRoleTags"
                /\ calls[a][i - 1].role = calls[a][i].role
                /\ calls[a][i - 1].res = o[a].name

\* C8, amended: DeleteRole is called on a role only right after a listing of
\* that role's tags that answered and showed the copilot-environment tag,
\* whatever its value; a role whose tags lack that key, or cannot be listed,
\* is passed over without DeleteRole.
C8_DeleteOnlyTaggedRoles ==
    \A a \in AttemptIds :
        /\ \A i \in DOMAIN calls[a] :
              /\ calls[a][i].op = "DeleteRole" =>
                    /\ i > 1
                    /\ calls[a][i - 1].op = "ListRoleTags"
                    /\ calls[a][i - 1].role = calls[a][i].role
                    /\ ShowsTag(calls[a][i - 1].res)
              /\ (calls[a][i].op = "ListRoleTags" /\ ~ShowsTag(calls[a][i].res)
                    /\ i < Len(calls[a]))
                    => calls[a][i + 1].op # "DeleteRole"
        /\ pc[a] = "DeleteRole" =>
              /\ calls[a][Len(calls[a])].op = "ListRoleTags"
              /\ calls[a][Len(calls[a])].role = currentRole(a)
              /\ ShowsTag(calls[a][Len(calls[a])].res)

C8_Witness ==
    \E a \in AttemptIds :
        \E i \in Idx(a, "DeleteRole") :
            /\ calls[a][i].res = "ok"
            /\ calls[a][i - 1].res = "other"
            /\ ~iamRoles[calls[a][i].role].exists
            /\ \E j \in Idx(a, "ListRoleTags") : calls[a][j].res = "noTag"

\* C9: when the deployer is about to be, or has been, invoked: if the
\* existence check answered that the stack exists, no tag listing and no
\* role deletion came before; if it answered that it does not, both roles
\* were listed (and deleted if tagged) between the check and the deployer.
C9_PreDeployCleanup ==
    \A a \in AttemptIds :
        (pc[a] = "DeployAndRenderEnvironment" \/ Has(a, "DeployAndRenderEnvironment")) =>
            /\ Has(a, "Exists")
            /\ LET d == DeployPos(a)
                   x == Pos(a, "Exists")
               IN
               /\ x < d
               /\ calls[a][x].res \in {"true", "false"}
               /\ calls[a][x].res = "true" =>
                     \A i \in 1..(d - 1) :
                         calls[a][i].op \notin {"ListRoleTags", "DeleteRole"}
               /\ calls[a][x].res = "false" =>
                     \A r \in envRoles(a) :
                         LET lists == {i \in (x + 1)..(d - 1) :
                                          /\ calls[a][i].op = "ListRoleTags"
                                          /\ calls[a][i].role = r}
                         IN
                         /\ Cardinality(lists) = 1
                         /\ \A i \in 1..x : calls[a][i].op # "ListRoleTags"
                         /\ \A i \in lists :
                               ShowsTag(calls[a][i].res) =>
                                   /\ i + 1 < d
                                   /\ calls[a][i + 1].op = "DeleteRole"
                                   /\ calls[a][i + 1].role = r

C9_Witness ==
    \E a \in AttemptIds :
        /\ Has(a, "DeployAndRenderEnvironment")
        /\ Answer(a, "Exists") = "false"
        /\ \E r \in envRoles(a) : PreCalls(a, "DeleteRole", r) # {}

\* C10 as stated: once the cleanup has begun with the existence check,
\* Execute always goes on to the deployment, and the error it returns is
\* never one of a cleanup step.
C10_Original ==
    \A a \in AttemptIds :
        (Done(a) /\ Has(a, "Exists")) =>
            /\ Has(a, "DeployAndRenderEnvironment")
            /\ err[a] # NoErr => err[a][1] # "check if stack exists"

\* C10, amended: no error of a tag listing or of a role deletion changes
\* whether Execute goes on to the deployment or which error it returns: after
\* an answered existence check the deployer is always invoked and the error
\* of Execute is decided by the deployer, GetEnvironment and CreateEnvironment
\* alone.  A failed existence check, however, ends Execute with the wrapped
\* error "check if stack ... exists" before any listing, deletion or
\* deployment.
C10_CleanupErrorsSwallowed ==
    \A a \in AttemptIds :
        Done(a) =>
            LET x == Answer(a, "Exists")
                last == calls[a][Len(calls[a])]
            IN
            /\ x \in {"true", "false"} =>
                  /\ Has(a, "DeployAndRenderEnvironment")
                  /\ DeployFailed(a) => err[a] = deployErr[a]
                  /\ ~DeployFailed(a) =>
                        (err[a] = NoErr <=> last = Ev("CreateEnvironment", "ok"))
            /\ x = "error" =>
                  /\ err[a] = Wrap("check if stack exists", <<"ErrDescribeStacks">>)
                  /\ last = Ev("Exists", "error")
                  /\ \A i \in DOMAIN calls[a] :
                        calls[a][i].op \notin {"ListRoleTags", "DeleteRole",
                                               "DeployAndRenderEnvironment"}

C10_Witness ==
    \E a \in AttemptIds :
        /\ Done(a) /\ err[a] = NoErr
        /\ Answer(a, "Exists") = "false"
        /\ Answer(a, "DeployAndRenderEnvironment") = "ok"
        /\ \E i \in Idx(a, "ListRoleTags") : calls[a][i].res = "error"
        /\ \E i \in Idx(a, "DeleteRole") : calls[a][i].res = "ok"

\* C11: whatever CreateECSServiceLinkedRole answers (created, already exists,
\* any other error), Execute goes on to the stack-set registration: the call
\* is followed by AddEnvToApp with its progress pair, the attempt never ends
\* on it, and whether Execute returns an error is decided by the other steps
\* alone (nil exactly when the last call is a successful CreateEnvironment,
\* otherwise a later step other than the role cleanup failed).
C11_RoleBootstrapAdvisory ==
    \A a \in AttemptIds :
        slrResult[a] # "none" =>
            LET p == Pos(a, "CreateECSServiceLinkedRole")
                n == Len(calls[a])
            IN
            /\ calls[a][p].res = slrResult[a]
            /\ \/ pc[a] = "AddEnvToApp" /\ n = p
               \/ /\ n >= p + 3
                  /\ calls[a][p + 1] = Ev("prog.Start", "stackset")
                  /\ calls[a][p + 2].op = "AddEnvToApp"
            /\ Done(a) =>
                  /\ err[a] = NoErr <=> calls[a][n] = Ev("CreateEnvironment", "ok")
                  /\ err[a] # NoErr =>
                        \E i \in (p + 1)..n :
                            /\ calls[a][i].res = "error"
                            /\ calls[a][i].op \notin {"ListRoleTags", "DeleteRole"}

C11_Witness ==
    \E a \in AttemptIds :
        /\ slrResult[a] = "error"
        /\ Done(a) /\ err[a] = NoErr
        /\ Answer(a, "AddEnvToApp") = "ok"

\* C12: once the identity is known, DelegateDNSPermissions is (about to be)
\* called exactly when the application has a domain and the caller's account
\* is not the application's; with equal accounts no call is made and no DNS
\* error is returned; a failed call ends Execute with the wrapped error before
\* CreateECSServiceLinkedRole and AddEnvToApp.
C12_DNSDelegationIffCrossAccount ==
    \A a \in AttemptIds :
        envCaller[a] # "" =>
            LET needed == /\ RequiresDNSDelegation(app[a])
                          /\ envCaller[a] # app[a].AccountID
                called == Has(a, "DelegateDNSPermissions")
            IN
            /\ (called \/ pc[a] = "DelegateDNSPermissions") <=> needed
            /\ ~(called /\ pc[a] = "DelegateDNSPermissions")
            /\ ~needed => (Done(a) /\ err[a] # NoErr => err[a][1] # "granting DNS permissions")
            /\ Answer(a, "DelegateDNSPermissions") = "error" =>
                  /\ Done(a)
                  /\ err[a] = Wrap("granting DNS permissions", <<"ErrDelegateDNS">>)
                  /\ ~Has(a, "CreateECSServiceLinkedRole")
                  /\ ~Has(a, "AddEnvToApp")
                  /\ calls[a][Len(calls[a])] = Ev("prog.Stop", "failure")

C12_Witness ==
    \E a \in AttemptIds :
        /\ Answer(a, "DelegateDNSPermissions") = "error"
        /\ app[a].Domain # "" /\ envCaller[a] # app[a].AccountID
        /\ Done(a)

\* C13: a failure of AddEnvToApp, GetAppResourcesByRegion or
\* UploadEnvironmentCustomResources ends Execute there: the failed call (with
\* the closing progress message of AddEnvToApp) is the last call of the
\* attempt, Execute returns that step's error wrapped in the step's message,
\* and no deployment, role listing or deletion, GetEnvironment or
\* CreateEnvironment is in the history; the record store is as it began.
FatalSteps == {"AddEnvToApp", "GetAppResourcesByRegion",
               "UploadEnvironmentCustomResources"}
FatalPrefix(op) ==
    CASE op = "AddEnvToApp" -> "deploy env to application"
      [] op = "GetAppResourcesByRegion" -> "get app resources"
      [] op = "UploadEnvironmentCustomResources" -> "upload custom resources to bucket"
LaterSteps == {"Exists", "ListRoleTags", "DeleteRole", "DeployAndRenderEnvironment",
               "GetEnvironment", "CreateEnvironment"}

C13_FatalFailuresAbort ==
    \A a \in AttemptIds :
        \A i \in DOMAIN calls[a] :
            (calls[a][i].op \in FatalSteps /\ calls[a][i].res = "error") =>
                LET n == Len(calls[a]) IN
                /\ Done(a)
                /\ IF calls[a][i].op = "AddEnvToApp"
                   THEN n = i + 1 /\ calls[a][n] = Ev("prog.Stop", "failure")
                   ELSE n = i
                /\ Len(err[a]) = 2
                /\ err[a][1] = FatalPrefix(calls[a][i].op)
                /\ \A j \in 1..n : calls[a][j].op \notin LaterSteps
                /\ deployInput[a] = NoInput /\ env[a] = NoEnv
                /\ storeEnvs[<<o[a].appName, o[a].name>>] \in {NoEnv, OldEnv}

C13_Witness ==
    \E a \in AttemptIds :
        /\ Done(a)
        /\ Answer(a, "UploadEnvironmentCustomResources") = "error"
        /\ err[a] = Wrap("upload custom resources to bucket", <<"ErrUpload">>)
        /\ Answer(a, "AddEnvToApp") = "ok"

\* C14: when no record was stored under (app, name) and every step succeeded,
\* the stored record is the deployer's descriptor (application, name, region
\* and account as deployed) with Prod = the production flag of the run and
\* CustomConfig = NewCustomizeEnv(importVPCConfig, adjustVPCConfig), nil for
\* the default configuration, and Store.GetEnvironment(app, name) returns it.
C14_PersistedRecordStamped ==
    \A a \in AttemptIds :
        (Done(a) /\ err[a] = NoErr
            /\ storeEnvs[<<o[a].appName, o[a].name>>] # OldEnv) =>
                LET got == storeGetEnvironment(storeEnvs, o[a].appName, o[a].name, FALSE)
                IN
                /\ got.err = NoErr
                /\ got.env = env[a]
                /\ got.env.App = o[a].appName /\ got.env.Name = o[a].name
                /\ got.env.Region = envRegion /\ got.env.AccountID = envCaller[a]
                /\ got.env.Prod = o[a].isProduction
                /\ got.env.CustomConfig =
                      NewCustomizeEnv(importVPCConfig(o[a]), adjustVPCConfig(o[a]))
                /\ o[a].defaultConfig => got.env.CustomConfig = NoCustomConfig
                /\ ~o[a].defaultConfig => got.env.CustomConfig # NoCustomConfig

C14_Witness ==
    \E a \in AttemptIds :
        /\ Done(a) /\ err[a] = NoErr
        /\ o[a].defaultConfig /\ ~o[a].isProduction
        /\ storeEnvs[<<"demo", "test">>] =
              [app |-> "demo", name |-> "test", region |-> envRegion,
               accountID |-> envCaller[a], prod |-> FALSE]
        /\ storeGetEnvironment(storeEnvs, "demo", "test", FALSE).env.CustomConfig
              = NoCustomConfig

\* ---- the record store ------------------------------------------------------
\* The key of the last Store call, and whether SSM and the application lookup
\* answered it (no failure other than the ones the method handles).
CallKey == <<storeCall.appName, storeCall.name>>
CallAnswered == storeCall.appErr = NoErr /\ ~storeCall.ssmFails
StoredBefore(k) == storeCall.before[k] # NoEnv

\* C15: a CreateEnvironment for a key under which a record is already stored
\* (written by an earlier successful CreateEnvironment), answered by the
\* application lookup and by SSM, returns nil and leaves every parameter,
\* the first record included, as it was, whatever the new record holds;
\* Execute's step 6 then returns nil as well.
C15_CreateFirstWriteWins ==
    (storeCall.op = "CreateEnvironment" /\ StoredBefore(CallKey) /\ CallAnswered) =>
        /\ storeCall.err = NoErr
        /\ storeEnvs = storeCall.before
        /\ storeEnvs[CallKey] = storeCall.before[CallKey]
        /\ storeCall.returned = NoErr

C15_Witness ==
    /\ storeCall.op = "CreateEnvironment" /\ CallAnswered
    /\ StoredBefore(CallKey)
    /\ marshal(storeCall.environment) # storeCall.before[CallKey]
    /\ storeCall.environment.Prod # unmarshal(storeCall.before[CallKey]).Prod
    /\ storeCall.err = NoErr /\ storeCall.returned = NoErr
    /\ storeEnvs[CallKey] = storeCall.before[CallKey]

\* C16: a CreateEnvironment whose application lookup fails (the application
\* does not exist, or the lookup itself fails) returns that very error and
\* leaves every parameter as it was, whether or not a record is stored under
\* the key; for an application that does not exist it never returns nil.
C16_CreateChecksApplicationFirst ==
    storeCall.op = "CreateEnvironment" =>
        /\ storeCall.appErr # NoErr =>
              /\ storeCall.err = storeCall.appErr
              /\ storeEnvs = storeCall.before
        /\ storeApps[storeCall.appName] = NoApp =>
              /\ storeCall.err \in {<<"ErrNoSuchApplication">>, <<"ErrStore">>}
              /\ storeEnvs = storeCall.before

C16_Witness ==
    /\ storeCall.op = "CreateEnvironment"
    /\ storeApps[storeCall.appName] = NoApp
    /\ StoredBefore(CallKey)
    /\ marshal(storeCall.environment) # storeCall.before[CallKey]
    /\ storeCall.err = <<"ErrNoSuchApplication">>
    /\ storeEnvs = storeCall.before

\* C17: GetEnvironment returns ErrNoSuchEnvironment{app, name} only when no
\* record is stored under the key, and always then unless SSM fails
\* otherwise; such a failure is returned as a different, wrapped error; a
\* stored record is returned as the environment that was written.
C17_GetNotFoundIffAbsent ==
    storeCall.op = "GetEnvironment" =>
        LET notFound == ErrNoSuchEnvironment(storeCall.appName, storeCall.name) IN
        /\ storeCall.err = notFound => ~StoredBefore(CallKey)
        /\ (~StoredBefore(CallKey) /\ ~storeCall.ssmFails) => storeCall.err = notFound
        /\ storeCall.ssmFails =>
              /\ storeCall.err # NoErr
              /\ storeCall.err[1] # "ErrNoSuchEnvironment"
              /\ storeCall.err # notFound
        /\ (StoredBefore(CallKey) /\ ~storeCall.ssmFails) =>
              /\ storeCall.err = NoErr
              /\ storeCall.env \in StoreEnvironments
              /\ marshal(storeCall.env) = storeCall.before[CallKey]
        /\ storeEnvs = storeCall.before

C17_Witness ==
    /\ storeCall.op = "GetEnvironment"
    /\ storeCall.err = NoErr
    /\ storeCall.env.CustomConfig # NoCustomConfig
    /\ storeCall.env.Prod
    /\ \E k \in StoreKeys : ~StoredBefore(k)

\* C18: in the list ListEnvironments returns, no production record comes
\* before a non-production record.
C18_ListNonProdFirst ==
    (storeCall.op = "ListEnvironments" /\ storeCall.err = NoErr) =>
        \A i \in DOMAIN storeCall.envs : \A j \in DOMAIN storeCall.envs :
            (i < j /\ storeCall.envs[i].Prod) => storeCall.envs[j].Prod

C18_Witness ==
    /\ storeCall.op = "ListEnvironments" /\ storeCall.err = NoErr
    /\ Len(storeCall.envs) >= 3
    /\ \E i \in DOMAIN storeCall.envs : \E j \in DOMAIN storeCall.envs :
          /\ storeCall.envs[i].Prod /\ ~storeCall.envs[j].Prod
          /\ nameLess(storeCall.envs[i].Name, storeCall.envs[j].Name)

\* The records of an application stored before the last call.
StoredOf(appName) ==
    {unmarshal(storeCall.before[k]) : k \in {x \in StoreKeys :
                                               x[1] = appName /\ StoredBefore(x)}}
\* The list holds each stored record of the application once.
IsPermutationOfStored ==
    /\ Len(storeCall.envs) = Cardinality(StoredOf(storeCall.appName))
    /\ \A e \in StoredOf(storeCall.appName) :
          \E i \in DOMAIN storeCall.envs : storeCall.envs[i] = e

\* C19 as stated: the list ListEnvironments returns is a permutation of the
\* stored records with names ascending within the non-production group and
\* within the production group.
C19_Original ==
    (storeCall.op = "ListEnvironments" /\ storeCall.err = NoErr) =>
        /\ IsPermutationOfStored
        /\ \A i \in DOMAIN storeCall.envs : \A j \in DOMAIN storeCall.envs :
              (i < j /\ storeCall.envs[i].Prod = storeCall.envs[j].Prod) =>
                  nameLess(storeCall.envs[i].Name, storeCall.envs[j].Name)

\* C19, what the code does: the list is a permutation of the stored records
\* with names ascending within the production group, and DEscending within
\* the non-production group (the second sort moves every non-production
\* record to the very front, past the non-production records before it).
C19_ListOrderWithinGroups ==
    (storeCall.op = "ListEnvironments" /\ storeCall.err = NoErr) =>
        /\ IsPermutationOfStored
        /\ \A i \in DOMAIN storeCall.envs : \A j \in DOMAIN storeCall.envs :
              (i < j /\ storeCall.envs[i].Prod = storeCall.envs[j].Prod) =>
                  IF storeCall.envs[i].Prod
                  THEN nameLess(storeCall.envs[i].Name, storeCall.envs[j].Name)
                  ELSE nameLess(storeCall.envs[j].Name, storeCall.envs[i].Name)

C19_Witness ==
    /\ storeCall.op = "ListEnvironments" /\ storeCall.err = NoErr
    /\ Len(storeCall.envs) = 2
    /\ ~storeCall.envs[1].Prod /\ ~storeCall.envs[2].Prod
    /\ storeCall.envs[1].Name = EnvNameSeq[2]
    /\ storeCall.envs[2].Name = EnvNameSeq[1]

\* C20: a DeleteEnvironment that SSM answers returns nil; for an absent
\* record it leaves every parameter as it was; after any DeleteEnvironment
\* that returned nil, GetEnvironment of the key returns ErrNoSuchEnvironment
\* and the parameters of every other key are as before.
C20_DeleteIdempotent ==
    storeCall.op = "DeleteEnvironment" =>
        /\ ~storeCall.ssmFails => storeCall.err = NoErr
        /\ (~StoredBefore(CallKey) /\ storeCall.err = NoErr) =>
              storeEnvs = storeCall.before
        /\ storeCall.err = NoErr =>
              /\ storeGetEnvironment(storeEnvs, storeCall.appName, storeCall.name,
                                     FALSE).err
                    = ErrNoSuchEnvironment(storeCall.appName, storeCall.name)
              /\ \A k \in StoreKeys \ {CallKey} : storeEnvs[k] = storeCall.before[k]

C20_Witness ==
    /\ storeCall.op = "DeleteEnvironment"
    /\ ~StoredBefore(CallKey)
    /\ storeCall.err = NoErr
    /\ storeEnvs = storeCall.before
    /\ \E k \in StoreKeys : k[1] = storeCall.appName /\ storeEnvs[k] # NoEnv

\* ------------------------------------------------------------------------
\* Claims about Validate and Ask (CmdSpec).
\* ------------------------------------------------------------------------
Contacts(by) == {i \in DOMAIN cmd.log : cmd.log[i].by \in by /\ cmd.log[i].kind # "log"}
BothGroupsSet(v) == importVPCIsSet(v.importVPC) /\ adjustVPCIsSet(v.adjustVPC)
PassedValidate == cmd.pc \notin {"off", "Validate", "failed"} \/
                  (cmd.pc = "failed" /\ \E i \in DOMAIN cmd.log : cmd.log[i].by # "Validate")
\* What Execute hands to the deployer and stores in the record.
CmdImportVPC == importVPCConfig(cmd.vars)
CmdAdjustVPC == adjustVPCConfig(cmd.vars)
CmdCustomConfig == NewCustomizeEnv(CmdImportVPC, CmdAdjustVPC)

\* C21: flags with both the import group and the adjust group set never get
\* past Validate (unless the duplicate check fails first, Validate returns the
\* "cannot specify both" error), and when Ask has returned nil the
\* configuration Execute hands to the deployer and stores in the record has
\* at most one of ImportVPC and AdjustVPC non-nil.
C21_AtMostOneVPCMode ==
    /\ (cmd.pc # "off" /\ BothGroupsSet(cmd.flags.vars)) =>
          /\ cmd.pc \in {"Validate", "failed"}
          /\ (cmd.pc = "failed" /\ Contacts({"Validate"}) = {}) =>
                cmd.err = <<"cannot specify both import vpc flags and configure vpc flags">>
    /\ cmd.pc = "Execute" =>
          /\ ~(CmdImportVPC # NoVPC /\ CmdAdjustVPC # NoVPC)
          /\ CmdCustomConfig # NoCustomConfig =>
                (CmdCustomConfig.ImportVPC = NoVPC \/ CmdCustomConfig.VPCConfig = NoVPC)

C21_Witness ==
    /\ cmd.pc = "Execute"
    /\ ~importVPCIsSet(cmd.flags.vars.importVPC)
    /\ CmdCustomConfig # NoCustomConfig
    /\ CmdCustomConfig.ImportVPC # NoVPC
    /\ CmdCustomConfig.VPCConfig = NoVPC

\* The contacts of askImportResources with the subnet selector.
SubnetContacts(op) == {i \in DOMAIN cmd.log : cmd.log[i].by = "askImportResources" /\
                                               cmd.log[i].op = op}
ImportResolved == cmd.pc = "Execute" /\ CmdImportVPC # NoVPC
PrivateSubnetsPassedEmpty == /\ "PrivateSubnetIDs" \in cmd.flags.nonNil
                             /\ cmd.flags.vars.importVPC.PrivateSubnetIDs = <<>>

\* C22 as stated: import mode never resolves with exactly one public subnet
\* or with fewer than two private subnets, and no discovered public subnet is
\* only a warning.
C22_Original ==
    /\ ImportResolved =>
          /\ Len(cmd.vars.importVPC.PublicSubnetIDs) # 1
          /\ Len(cmd.vars.importVPC.PrivateSubnetIDs) >= 2
    /\ \A i \in SubnetContacts("selVPC.Subnets public") :
          cmd.log[i].res = "ErrSubnetsNotFound" =>
              /\ Len(cmd.log) > i /\ cmd.log[i + 1].op = "Warningf"
              /\ cmd.pc = "failed" => Len(cmd.log) > i + 1

\* C22, what the code does: import mode never resolves with exactly one
\* public subnet; when no public subnet is discovered a warning is logged and
\* the resolution goes on; a selection of private subnets that fails or has
\* fewer than two subnets ends with an error; import mode resolves with fewer
\* than two private subnets only when the list was passed in empty but not
\* nil, and then with none, unprompted.
C22_ImportSubnetCounts ==
    /\ ImportResolved =>
          /\ Len(cmd.vars.importVPC.PublicSubnetIDs) # 1
          /\ Len(cmd.vars.importVPC.PrivateSubnetIDs) < 2 =>
                /\ PrivateSubnetsPassedEmpty
                /\ cmd.vars.importVPC.PrivateSubnetIDs = <<>>
                /\ SubnetContacts("selVPC.Subnets private") = {}
    /\ \A i \in SubnetContacts("selVPC.Subnets public") :
          cmd.log[i].res = "ErrSubnetsNotFound" =>
              /\ Len(cmd.log) > i /\ cmd.log[i + 1].op = "Warningf"
              /\ cmd.pc = "failed" => Len(cmd.log) > i + 1
    /\ \A i \in SubnetContacts("selVPC.Subnets private") :
          /\ cmd.log[i].res # "ok" =>
                cmd.pc = "failed" /\ cmd.err = Wrap("select private subnets", <<cmd.log[i].res>>)
          /\ cmd.pc = "Execute" => Len(cmd.vars.importVPC.PrivateSubnetIDs) >= 2

C22_Witness ==
    /\ ImportResolved
    /\ \E i \in SubnetContacts("selVPC.Subnets public") :
          cmd.log[i].res = "ErrSubnetsNotFound"
    /\ cmd.vars.importVPC.PublicSubnetIDs = <<>>
    /\ SubnetContacts("selVPC.Subnets private") # {}
    /\ Len(cmd.vars.importVPC.PrivateSubnetIDs) >= 2

\* The contacts of askAZs.
AZsContacts(op) == {i \in DOMAIN cmd.log : cmd.log[i].by = "askAZs" /\ cmd.log[i].op = op}
AdjustResolved == cmd.pc = "Execute" /\ CmdAdjustVPC # NoVPC
TooFewZones == {ToString(n) : n \in 0..(minAZs - 1)}
ErrTooFewZones == <<"requires at least 2 availability zones">>
AZsPassedEmpty == "AZs" \in cmd.flags.nonNil /\ cmd.flags.vars.adjustVPC.AZs = <<>>

\* C23 as stated: adjust mode never resolves with fewer than two zones, and
\* a ListAZs answer of fewer than two zones ends askAZs with the error naming
\* the minimum of 2, without a selection prompt.
C23_Original ==
    /\ AdjustResolved => Len(cmd.vars.adjustVPC.AZs) >= minAZs
    /\ \A i \in AZsContacts("ListAZs") :
          cmd.log[i].res \in TooFewZones =>
              /\ cmd.pc = "failed" /\ cmd.err = ErrTooFewZones
              /\ AZsContacts("MultiSelect") = {}

\* C23, what the code does: a ListAZs answer of fewer than two zones ends
\* askAZs with the error naming the minimum of 2, without a selection prompt;
\* zones selected at the prompt are at least two; adjust mode resolves with
\* fewer than two zones only when the zones were passed in as an empty list
\* that is not nil, and then with none, without ListAZs and without a prompt.
C23_AdjustZoneCounts ==
    /\ (AdjustResolved /\ Len(cmd.vars.adjustVPC.AZs) < minAZs) =>
              /\ AZsPassedEmpty
              /\ cmd.vars.adjustVPC.AZs = <<>>
              /\ AZsContacts("ListAZs") = {} /\ AZsContacts("MultiSelect") = {}
    /\ \A i \in AZsContacts("ListAZs") :
          cmd.log[i].res \in TooFewZones =>
              /\ cmd.pc = "failed" /\ cmd.err = ErrTooFewZones
              /\ AZsContacts("MultiSelect") = {}
    /\ (AZsContacts("MultiSelect") # {} /\ cmd.pc = "Execute") =>
          Len(cmd.vars.adjustVPC.AZs) >= minAZs

C23_Witness ==
    /\ cmd.pc = "failed" /\ cmd.err = ErrTooFewZones
    /\ \E i \in AZsContacts("ListAZs") : cmd.log[i].res = "1"
    /\ AZsContacts("MultiSelect") = {}

\* Every field of a mode was passed in by the flags.
ImportPopulated == /\ cmd.pc # "off"
                   /\ cmd.flags.vars.importVPC.ID # ""
                   /\ cmd.flags.vars.importVPC.PublicSubnetIDs # <<>>
                   /\ cmd.flags.vars.importVPC.PrivateSubnetIDs # <<>>
AdjustPopulated == /\ cmd.pc # "off"
                   /\ cmd.flags.vars.adjustVPC.CIDR # ""
                   /\ cmd.flags.vars.adjustVPC.AZs # <<>>
                   /\ cmd.flags.vars.adjustVPC.PublicSubnetCIDRs # <<>>
                   /\ cmd.flags.vars.adjustVPC.PrivateSubnetCIDRs # <<>>
VPCFieldsUnchanged == /\ cmd.vars.importVPC = cmd.flags.vars.importVPC
                      /\ cmd.vars.adjustVPC = cmd.flags.vars.adjustVPC
                      /\ cmd.nonNil = cmd.flags.nonNil

\* C24 as stated: with every field of the selected mode populated,
\* askCustomizedResources issues no prompt, makes no network call and leaves
\* the fields unchanged.
C24_Original ==
    (ImportPopulated \/ AdjustPopulated) =>
        Contacts(ResolverSteps) = {} /\ VPCFieldsUnchanged

\* C24, what the code does: with every field of the selected mode populated,
\* askCustomizedResources issues no prompt and leaves the fields unchanged; in
\* adjust mode it contacts no collaborator; in import mode it makes one
\* network call, HasDNSSupport, and returns nil only if that answers yes.
C24_PopulatedResolution ==
    /\ AdjustPopulated => Contacts(ResolverSteps) = {} /\ VPCFieldsUnchanged
    /\ ImportPopulated =>
          /\ VPCFieldsUnchanged
          /\ \A i \in Contacts(ResolverSteps) :
                /\ cmd.log[i].op = "HasDNSSupport" /\ cmd.log[i].kind = "ec2"
                /\ i = Len(cmd.log)
                /\ cmd.log[i].res # "yes" => cmd.pc = "failed"
          /\ cmd.pc = "Execute" =>
                \E i \in Contacts(ResolverSteps) : cmd.log[i].res = "yes"

C24_Witness ==
    /\ ImportPopulated
    /\ cmd.pc = "Execute"
    /\ VPCFieldsUnchanged
    /\ \E i \in Contacts(ResolverSteps) : cmd.log[i].op = "HasDNSSupport"

\* The errors of Validate for mutually exclusive options and for too few
\* subnets or zones.
ConfigErrors ==
    {<<"cannot specify both import vpc flags and configure vpc flags">>,
     <<"cannot import or configure vpc if --default-config is set">>,
     <<"at least two public subnets must be imported to enable Load Balancing">>,
     <<"at least two private subnets must be imported">>,
     <<"at least two availability zones must be provided to enable Load Balancing">>,
     <<"cannot specify both --profile and --aws-access-key-id">>,
     <<"cannot specify both --profile and --aws-secret-access-key">>,
     <<"cannot specify both --profile and --aws-session-token">>}
ConfigErrorReturned == cmd.pc = "failed" /\ cmd.err \in ConfigErrors

\* C25 as stated: when Validate fails with a configuration error, no
\* collaborator has been called in the invocation.
C25_Original == ConfigErrorReturned => cmd.log = <<>>

\* C25, what the code does: when Validate fails with a configuration error,
\* no collaborator has been called if no environment name was passed in; if
\* one was, the record store has been asked once for that environment, has
\* answered that there is none, and nothing else has been called.
C25_ConfigErrorBeforeOtherCalls ==
    ConfigErrorReturned =>
        IF cmd.flags.vars.name = "" THEN cmd.log = <<>>
        ELSE cmd.log = <<Contact("Validate", "store", "GetEnvironment",
                                 "ErrNoSuchEnvironment")>>

C25_Witness ==
    /\ ConfigErrorReturned
    /\ cmd.err = <<"cannot specify both --profile and --aws-session-token">>
    /\ cmd.flags.vars.name # ""
    /\ Len(cmd.log) = 1 /\ cmd.log[1].kind = "store"

\* The contacts askEnvSession made with a source of credentials.
SessionContacts == {i \in DOMAIN cmd.log : cmd.log[i].by = "askEnvSession"}
AfterAskEnvSession ==
    cmd.pc \in {"askEnvRegion", "askCustomizedResources", "askImportResources",
                "askAdjustResources", "Execute"}

\* Every combination of a profile and static credentials, those Validate
\* rejects included.
CredsCombos ==
    {[profile |-> p, tempCreds |-> [AccessKeyID |-> ak, SecretAccessKey |-> sk,
                                    SessionToken |-> st]] :
        p \in {"", "prof"}, ak \in {"", "AKIA"}, sk \in {"", "secret"},
        st \in {"", "token"}}
\* The source the priority of the claim names.
SourceByPriority(v) ==
    IF v.profile # "" THEN "FromProfile"
    ELSE IF v.tempCreds.AccessKeyID # "" /\ v.tempCreds.SecretAccessKey # ""
    THEN "FromStaticCreds"
    ELSE "Creds"

\* C26: askEnvSession consults exactly one source of credentials: the named
\* profile if one is given, else the static credentials if the access key id
\* and the secret access key are both given, else the interactive selection
\* (for every combination of the credential flags the branch taken is the
\* one this priority names); when the source fails its error is returned, no
\* other source is consulted and no session is set; when it answers the
\* session is the one it made.
C26_OneCredentialSource ==
    LET expected == SourceByPriority(cmd.flags.vars)
    IN  cmd.pc # "off" =>
        /\ \A v \in CredsCombos : sessionSource(v) = SourceByPriority(v)
        /\ \A i \in SessionContacts : \A j \in SessionContacts : i = j
        /\ AfterAskEnvSession => SessionContacts # {}
        /\ \A i \in SessionContacts :
              /\ cmd.log[i].op = expected
              /\ cmd.log[i].res = "error" =>
                    /\ cmd.pc = "failed" /\ cmd.sess = NoSess
                    /\ i = Len(cmd.log)
                    /\ cmd.err = IF expected = "FromProfile"
                                 THEN <<"create session from profile", "ErrSession">>
                                 ELSE IF expected = "FromStaticCreds" THEN <<"ErrSession">>
                                 ELSE <<"select creds", "ErrSession">>
              /\ cmd.log[i].res = "ok" => cmd.sess # NoSess /\ cmd.sess.source = expected

C26_Witness ==
    /\ cmd.pc = "failed"
    /\ cmd.flags.vars.profile = ""
    /\ cmd.flags.vars.tempCreds.AccessKeyID # ""
    /\ cmd.flags.vars.tempCreds.SecretAccessKey # ""
    /\ \E i \in SessionContacts : cmd.log[i].op = "FromStaticCreds" /\ cmd.log[i].res = "error"
    /\ cmd.err = <<"ErrSession">>

CredentialErrors ==
    {<<"cannot specify both --profile and --aws-access-key-id">>,
     <<"cannot specify both --profile and --aws-secret-access-key">>,
     <<"cannot specify both --profile and --aws-session-token">>}
ProfileWithStaticCreds(v) ==
    /\ v.profile # ""
    /\ \/ v.tempCreds.AccessKeyID # ""
       \/ v.tempCreds.SecretAccessKey # ""
       \/ v.tempCreds.SessionToken # ""

\* C27: validateCredentials returns an error exactly for a profile together
\* with at least one of access key id, secret access key and session token;
\* flags with such a combination never get past Validate, which returns a
\* credentials error for them unless an earlier check of Validate failed; and
\* Validate returns a credentials error for no other flags.
C27_ProfileExcludesStaticCreds ==
    cmd.pc # "off" =>
        /\ \A v \in CredsCombos :
              (validateCredentials(v) # NoErr) = ProfileWithStaticCreds(v)
        /\ \A v \in CredsCombos :
              validateCredentials(v) # NoErr => validateCredentials(v) \in CredentialErrors
        /\ ProfileWithStaticCreds(cmd.flags.vars) =>
              /\ cmd.pc \in {"Validate", "failed"}
              /\ (cmd.pc = "failed" /\ cmd.err \notin ConfigErrors) =>
                    (cmd.log # <<>> /\ cmd.log[Len(cmd.log)].res # "ErrNoSuchEnvironment")
              /\ (cmd.pc = "failed" /\ cmd.err \in ConfigErrors \ CredentialErrors) =>
                    validateCustomizedResources(cmd.flags.vars) = cmd.err
        /\ (cmd.pc = "failed" /\ cmd.err \in CredentialErrors) =>
              ProfileWithStaticCreds(cmd.flags.vars)

C27_Witness ==
    /\ cmd.pc = "failed"
    /\ cmd.err = <<"cannot specify both --profile and --aws-session-token">>
    /\ cmd.flags.vars.tempCreds.AccessKeyID = ""
    /\ cmd.flags.vars.tempCreds.SecretAccessKey = ""
    /\ cmd.flags.vars.profile # ""

RegionContacts == {i \in DOMAIN cmd.log : cmd.log[i].by = "askEnvRegion"}
AfterAskEnvRegion ==
    cmd.pc \in {"askCustomizedResources", "askImportResources", "askAdjustResources",
                "Execute"}

\* C28: after askEnvRegion has returned nil the region of the session is the
\* region flag if that is not empty, else the region the session was made
\* with if that is not empty, else the answer of the region prompt; the
\* prompt is issued only when the flag and the session's region are both
\* empty, and then it is issued.
C28_RegionPriority ==
    /\ AfterAskEnvRegion =>
          /\ cmd.sess.Region = IF cmd.flags.vars.region # "" THEN cmd.flags.vars.region
                               ELSE IF cmd.sess.Default # "" THEN cmd.sess.Default
                               ELSE envRegion
          /\ (RegionContacts # {}) =
                (cmd.flags.vars.region = "" /\ cmd.sess.Default = "")
    /\ RegionContacts # {} =>
          /\ cmd.flags.vars.region = "" /\ cmd.sess.Default = ""
          /\ \A i \in RegionContacts : cmd.log[i].kind = "prompt"
          /\ \A i \in RegionContacts :
                cmd.log[i].res = "error" =>
                    cmd.pc = "failed" /\ cmd.err = <<"get environment region", "ErrPrompt">>

C28_Witness ==
    /\ AfterAskEnvRegion
    /\ cmd.flags.vars.region = flagRegion
    /\ cmd.sess.Default = sessRegion
    /\ cmd.sess.Region = flagRegion
    /\ RegionContacts = {}

\* ------------------------------------------------------------------------
\* Claims about rendering (RenderSpec).
\* ------------------------------------------------------------------------
RenderDone == render.pc = "done"

\* C29: parseWkld executes the document only after the base document and
\* every fragment of the catalog, in the catalog's order, has been loaded and
\* attached; when loading or attaching fails nothing is executed or written
\* and an error is returned without a document; when the execution fails
\* (a reference to an undeclared fragment among the causes) an error is
\* returned without a document, whatever was written before the failure; a
\* document is returned only without an error, and then it is complete.
C29_RenderAllOrNothing ==
    render.pc # "off" =>
        /\ (render.executed \/ render.pc = "execute") =>
              render.tree = partialsWorkloadCFTemplateNames
        /\ render.failure.step \in {"parse", "attach"} =>
              /\ RenderDone /\ ~render.executed /\ render.buf = <<>>
              /\ render.content = NoContent /\ render.err # NoErr
        /\ RenderDone => ((render.err # NoErr) = (render.content = NoContent))
        /\ (RenderDone /\ render.err = NoErr) =>
              /\ render.executed
              /\ Len(render.content.Buffer) = 1 + Len(render.doc)
              /\ \A i \in DOMAIN render.doc :
                    render.content.Buffer[i + 1][1] = render.doc[i]
        /\ (RenderDone /\ "undeclared" \in Names(render.doc)) =>
              render.err # NoErr /\ render.content = NoContent
        /\ ~RenderDone => render.content = NoContent

C29_Witness ==
    /\ RenderDone /\ render.executed
    /\ "undeclared" \in Names(render.doc)
    /\ Len(render.buf) > 1
    /\ render.err # NoErr
    /\ render.content = NoContent

\* The names the claim lists for a workload, in the claim's order.
ApplicableNames(opts) ==
    (IF opts.WorkloadType = "Load Balanced Web Service"
     THEN <<"ALBWorkloads,", "Aliases,">> ELSE <<>>)
    \o (IF opts.Network.SubnetsType = "PrivateSubnets" THEN <<"NATWorkloads,">> ELSE <<>>)
    \o (IF opts.Storage # NoStorage /\ opts.Storage.ManagedVolumeInfo # NoManagedVolume
        THEN <<"EFSWorkloads,">> ELSE <<>>)
AllApply(opts) == /\ opts.WorkloadType = "Load Balanced Web Service"
                  /\ opts.Network.SubnetsType = "PrivateSubnets"
                  /\ opts.Storage # NoStorage
                  /\ opts.Storage.ManagedVolumeInfo # NoManagedVolume
NoneApplies(opts) == /\ opts.WorkloadType # "Load Balanced Web Service"
                     /\ opts.Network.SubnetsType # "PrivateSubnets"
                     /\ (opts.Storage = NoStorage \/
                         opts.Storage.ManagedVolumeInfo = NoManagedVolume)
\* The positions of a rendered document written for the env-controller fragment.
EnvControllerPieces ==
    {i \in DOMAIN render.content.Buffer :
        render.content.Buffer[i][1] = "env-controller"}

\* C30: for every workload kind, subnet placement and storage configuration
\* envControllerParameters returns the applicable names in the order load
\* balancer (two names), networking, storage: all four when the three
\* conditions hold, none when none holds; and that is what a rendered
\* document shows for its env-controller fragment.
C30_EnvControllerParameters ==
    render.pc # "off" =>
        /\ \A opts \in WorkloadOptsSet :
              /\ envControllerParameters(opts) = ApplicableNames(opts)
              /\ AllApply(opts) =>
                    envControllerParameters(opts) =
                        <<"ALBWorkloads,", "Aliases,", "NATWorkloads,", "EFSWorkloads,">>
              /\ NoneApplies(opts) => envControllerParameters(opts) = <<>>
        /\ (RenderDone /\ render.err = NoErr) =>
              \A i \in EnvControllerPieces :
                  Tail(render.content.Buffer[i]) = ApplicableNames(render.data)

C30_Witness ==
    /\ RenderDone /\ render.err = NoErr
    /\ AllApply(render.data)
    /\ \E i \in EnvControllerPieces :
          render.content.Buffer[i] = <<"env-controller", "ALBWorkloads,", "Aliases,",
                                       "NATWorkloads,", "EFSWorkloads,">>

\* ------------------------------------------------------------------------
\* Further claims about Execute.
\* ------------------------------------------------------------------------
\* The call a progress signal of each kind encloses.
ProgressCall(what) == IF what = "dns" THEN "DelegateDNSPermissions" ELSE "AddEnvToApp"

\* C31: progress signals are paired.  Every prog.Start in the history of an
\* attempt is followed by the call it announces (DelegateDNSPermissions for
\* DNS delegation, AddEnvToApp for the stack-set registration) and then by
\* one prog.Stop, which carries the failure message exactly when that call
\* failed; every prog.Stop closes such a Start; each kind is started at most
\* once; no Start is made for DNS delegation when the application needs none
\* or the accounts are equal; so no attempt ends with an open Start.
C31_ProgressPaired ==
    \A a \in AttemptIds :
        LET cs == calls[a]
            n == Len(cs)
        IN
        /\ \A i \in 1..n :
              LET e == cs[i] IN
              /\ e.op = "prog.Start" =>
                    /\ i + 2 <= n
                    /\ e.res \in {"dns", "stackset"}
                    /\ cs[i + 1].op = ProgressCall(e.res)
                    /\ cs[i + 2].op = "prog.Stop"
                    /\ cs[i + 2].res = "failure" <=> cs[i + 1].res = "error"
                    /\ cs[i + 2].res = "success" <=> cs[i + 1].res = "ok"
                    /\ \A j \in 1..(i - 1) : cs[j] # e
                    /\ e.res = "dns" =>
                          /\ RequiresDNSDelegation(app[a])
                          /\ envCaller[a] # app[a].AccountID
              /\ e.op = "prog.Stop" => i > 2 /\ cs[i - 2].op = "prog.Start"
              /\ e.op \in {"DelegateDNSPermissions", "AddEnvToApp"} =>
                    i > 1 /\ cs[i - 1].op = "prog.Start"
        /\ (envCaller[a] # "" /\ pc[a] # "DelegateDNSPermissions"
              /\ (~RequiresDNSDelegation(app[a]) \/ envCaller[a] = app[a].AccountID)) =>
                 \A i \in 1..n : cs[i] # Ev("prog.Start", "dns")

C31_Witness ==
    \E a \in AttemptIds :
        /\ Done(a)
        /\ \E i \in DOMAIN calls[a] :
              /\ calls[a][i] = Ev("prog.Start", "dns")
              /\ calls[a][i + 2] = Ev("prog.Stop", "success")
        /\ calls[a][Len(calls[a])] = Ev("prog.Stop", "failure")
        /\ calls[a][Len(calls[a]) - 1] = Ev("AddEnvToApp", "error")

\* The names an attempt is expected to use, from the (app, env) it handed to
\* the deployer: "<app>-<env>", "<stack>-CFNExecutionRole", "<stack>-EnvManagerRole".
InputStack(a) == <<deployInput[a].App.Name, deployInput[a].Name>>
InputRoles(a) == << <<InputStack(a), "CFNExecutionRole">>, <<InputStack(a), "EnvManagerRole">> >>
\* The roles of the tag listings at the positions lo..hi, in order.
ListedRoles(a, lo, hi) ==
    LET l == SelectSeq(SubSeq(calls[a], lo, hi), LAMBDA e : e.op = "ListRoleTags")
    IN  [i \in DOMAIN l |-> l[i].role]

\* C32: names are a function of (app, env) alone and agree across the paths
\* of one attempt.  The (app, env) handed to the deployer is the attempt's
\* (appName, name); the existence check answers for the stack named
\* "<app>-<env>" of that pair; every tag listing and role deletion is about
\* "<stack>-CFNExecutionRole" or "<stack>-EnvManagerRole" of that stack; and a
\* completed pre-deploy cleanup and a completed post-failure cleanup each list
\* exactly these two names, in that order.
C32_NamesAgree ==
    /\ \A ap \in AppNames, en \in EnvNames :
          /\ NameForEnv(ap, en) = <<ap, en>>
          /\ roleNames(ap, en) = << <<NameForEnv(ap, en), "CFNExecutionRole">>,
                                    <<NameForEnv(ap, en), "EnvManagerRole">> >>
    /\ \A a \in AttemptIds :
          deployInput[a] # NoInput =>
              LET cs == calls[a]
                  d == DeployPos(a)
                  n == Len(cs)
                  exists == Answer(a, "Exists")
                  roles == InputRoles(a)
              IN
              /\ deployInput[a].App.Name = o[a].appName
              /\ deployInput[a].Name = o[a].name
              /\ \A i \in 1..n :
                    cs[i].role # NoRole => cs[i].role \in {roles[1], roles[2]}
              /\ (d > n /\ exists \in {"true", "false"}) =>
                    (exists = "true" <=> cfnStacks[InputStack(a)])
              /\ (exists = "false" /\
                    (d <= n \/ pc[a] = "DeployAndRenderEnvironment")) =>
                        ListedRoles(a, 1, d - 1) = roles
              /\ (Done(a) /\ DeployFailed(a)) =>
                    ListedRoles(a, d + 1, n) = roles

C32_Witness ==
    \E a \in AttemptIds :
        /\ Done(a) /\ DeployFailed(a)
        /\ Answer(a, "Exists") = "false"
        /\ ListedRoles(a, 1, DeployPos(a) - 1) = ListedRoles(a, DeployPos(a) + 1, Len(calls[a]))
        /\ \E i \in PreCalls(a, "DeleteRole", InputRoles(a)[1]) : calls[a][i].res = "ok"
        /\ PostCalls(a, "DeleteRole", InputRoles(a)[2]) # {}

\* ------------------------------------------------------------------------
\* Further claims about Validate and Ask (CmdSpec).
\* ------------------------------------------------------------------------
CIDRFromFlag(f) == f \in cmd.flags.nonNil
NumAZs == Len(cmd.vars.adjustVPC.AZs)

\* C33 as stated: when adjust mode has resolved, the public and the private
\* subnet CIDR lists have one entry for each selected availability zone.
C33_Original ==
    AdjustResolved =>
        /\ Len(cmd.vars.adjustVPC.PublicSubnetCIDRs) = NumAZs
        /\ Len(cmd.vars.adjustVPC.PrivateSubnetCIDRs) = NumAZs

\* C33, what the code does: when adjust mode has resolved, a CIDR list that
\* was asked for at its prompt has one entry for each availability zone; a
\* CIDR list passed by flag is the list of the flag, whatever the number of
\* zones, and no step of Validate or Ask compares the two.
C33_PromptedCIDRsSized ==
    AdjustResolved =>
        /\ ~CIDRFromFlag("PublicSubnetCIDRs") =>
              Len(cmd.vars.adjustVPC.PublicSubnetCIDRs) = NumAZs
        /\ ~CIDRFromFlag("PrivateSubnetCIDRs") =>
              Len(cmd.vars.adjustVPC.PrivateSubnetCIDRs) = NumAZs
        /\ CIDRFromFlag("PublicSubnetCIDRs") =>
              cmd.vars.adjustVPC.PublicSubnetCIDRs = cmd.flags.vars.adjustVPC.PublicSubnetCIDRs
        /\ CIDRFromFlag("PrivateSubnetCIDRs") =>
              cmd.vars.adjustVPC.PrivateSubnetCIDRs = cmd.flags.vars.adjustVPC.PrivateSubnetCIDRs

C33_Witness ==
    /\ AdjustResolved
    /\ NumAZs = 2 /\ "AZs" \in cmd.flags.nonNil
    /\ ~CIDRFromFlag("PublicSubnetCIDRs")
    /\ Len(cmd.vars.adjustVPC.PublicSubnetCIDRs) = 2
    /\ CIDRFromFlag("PrivateSubnetCIDRs")
    /\ Len(cmd.vars.adjustVPC.PrivateSubnetCIDRs) = 1

\* The lookups of the duplicate check, by Validate or by askEnvName.
DuplicateChecks == {i \in DOMAIN cmd.log : cmd.log[i].op = "GetEnvironment"}
NothingProvisioned ==
    /\ \A st \in StackNames : ~cfnStacks[st]
    /\ \A r \in RoleNames : ~iamRoles[r].exists
    /\ \A k \in EnvKeys : storeEnvs[k] = NoEnv
    /\ \A a \in AttemptIds : pc[a] = "off"

\* C34: the duplicate check lets the invocation go on only when the lookup
\* answered with ErrNoSuchEnvironment.  When it found the environment the
\* invocation fails with "environment ... already exists"; when it failed
\* otherwise the invocation fails with the error wrapped as "validate if
\* environment exists"; in both cases the lookup is the last contact of the
\* invocation, Execute is not reached and nothing is provisioned.
C34_DuplicateCheck ==
    \A i \in DuplicateChecks :
        /\ cmd.log[i].res = "found" =>
              /\ cmd.pc = "failed" /\ cmd.err = <<"environment already exists">>
              /\ i = Len(cmd.log) /\ NothingProvisioned
        /\ cmd.log[i].res = "error" =>
              /\ cmd.pc = "failed"
              /\ cmd.err = Wrap("validate if environment exists", <<"ErrStore">>)
              /\ i = Len(cmd.log) /\ NothingProvisioned
        /\ (cmd.pc # "failed" \/ i < Len(cmd.log)) =>
              cmd.log[i].res = "ErrNoSuchEnvironment"

C34_Witness ==
    /\ cmd.pc = "failed"
    /\ cmd.err = Wrap("validate if environment exists", <<"ErrStore">>)
    /\ cmd.log[Len(cmd.log)] = Contact("askEnvName", "store", "GetEnvironment", "error")
    /\ NothingProvisioned

\* The stack of the attempt's (app, env) exists.
StackExists(a) == cfnStacks[NameForEnv(o[a].appName, o[a].name)]

\* C35 as stated: DeleteRole is never about to be called on a role of the
\* environment while the stack named for (app, env) exists.
C35_Original ==
    \A a \in AttemptIds : pc[a] = "DeleteRole" => ~StackExists(a)

\* C35, what the code does: the pre-deploy cleanup calls DeleteRole only
\* after the existence check answered that there is no stack, and there is
\* none when it calls; the cleanup after a failed deployment calls DeleteRole
\* after any error of the deployer other than "stack already exists", whether
\* or not a stack of that name exists, also one that existed before the
\* attempt; after "stack already exists" no DeleteRole is called.
C35_DeleteRoleAndStack ==
    \A a \in AttemptIds :
        /\ (pc[a] = "DeleteRole" /\ cleanup[a].phase = "pre") =>
              /\ ~StackExists(a)
              /\ Answer(a, "Exists") = "false"
              /\ ~Has(a, "DeployAndRenderEnvironment")
        /\ (pc[a] = "DeleteRole" /\ cleanup[a].phase = "post") =>
              /\ DeployFailed(a)
              /\ Answer(a, "DeployAndRenderEnvironment") = "error"
        /\ pc[a] = "DeleteRole" => cleanup[a].phase \in {"pre", "post"}
        /\ DeployAnsweredExists(a) => pc[a] \notin {"ListRoleTags", "DeleteRole"}

C35_Witness ==
    \E a \in AttemptIds :
        /\ pc[a] = "DeleteRole" /\ cleanup[a].phase = "post"
        /\ StackExists(a)
        /\ Answer(a, "Exists") = "true"
        /\ iamRoles[currentRole(a)] = RoleOf(o[a].name)

\* ------------------------------------------------------------------------
\* Two invocations of Execute for the same (application, environment).
\* ------------------------------------------------------------------------
\* Both attempts run `env init` for demo/test from the same account, one of
\* them with --prod; the application is registered and no record, no stack
\* and no role of the environment is there.
RaceVars(prod) == [appName |-> "demo", name |-> "test", isProduction |-> prod,
                   defaultConfig |-> TRUE, importVPC |-> emptyImportVPC,
                   adjustVPC |-> emptyAdjustVPC]

RaceInit ==
    /\ storeApps = [n \in AppNames |->
                      IF n = "demo"
                      THEN [Name |-> n, AccountID |-> AppAccount, Domain |-> "example.com"]
                      ELSE NoApp]
    /\ storeEnvs = [k \in EnvKeys |-> NoEnv]
    /\ cfnStacks = [st \in StackNames |-> FALSE]
    /\ iamRoles = [r \in RoleNames |-> RoleAbsent]
    /\ InitAttempts(AttemptIds)
    /\ o = [a \in AttemptIds |-> RaceVars(a = 2)]
    /\ sessAccount = [a \in AttemptIds |-> "2222"]
    /\ storeCall = NoStoreCall
    /\ cmd = NoCmd /\ render = NoRender

RaceSpec == RaceInit /\ [][Next]_vars

RaceKey == <<"demo", "test">>
RaceRoles == {roleNames("demo", "test")[1], roleNames("demo", "test")[2]}
\* The attempt created the stack and, with it, the two roles.
CreatedStack(a) == Has(a, "DeployAndRenderEnvironment") /\
                   Answer(a, "DeployAndRenderEnvironment") = "ok"
\* A role of the stack has been deleted.
RoleLost == \E r \in RaceRoles : ~iamRoles[r].exists
DeletedSome(a) == \E i \in DOMAIN calls[a] : calls[a][i].op = "DeleteRole" /\ calls[a][i].res = "ok"
AllDone == \A a \in AttemptIds : Done(a)

\* C36 as stated: however two attempts for the same pair interleave, the
\* roles of a stack that one of them created are never deleted, and when both
\* have ended and one returned nil the store holds the record of the pair.
C36_Original ==
    /\ (\E b \in AttemptIds : pc[b] # "off" /\ CreatedStack(b)) => ~RoleLost
    /\ (AllDone /\ \E a \in AttemptIds : err[a] = NoErr) => storeEnvs[RaceKey] # NoEnv

\* C36, what the code does: "stack already exists" guards the deployment and
\* the record, not the roles.  When two attempts for the same pair have ended
\* and one of them returned nil, the store holds one record for the pair, the
\* one written first, and an attempt whose deployer answered "already exists"
\* calls no DeleteRole afterwards.  The roles of the stack one attempt created
\* can be deleted by the other one: by its pre-deploy cleanup after an
\* existence check that answered false before the stack was created, or by
\* its cleanup after a deployment error other than "already exists"; a lost
\* role of a created stack always has such an attempt behind it.
C36_AlreadyExistsGuardsRecordOnly ==
    /\ (RoleLost /\ \E b \in AttemptIds : pc[b] # "off" /\ CreatedStack(b)) =>
          \E b \in AttemptIds :
              /\ CreatedStack(b)
              /\ \E a \in AttemptIds \ {b} :
                    /\ DeletedSome(a)
                    /\ \/ /\ Answer(a, "Exists") = "false"
                          /\ \E r \in RaceRoles : PreCalls(a, "DeleteRole", r) # {}
                       \/ DeployFailed(a)
    /\ \A a \in AttemptIds :
          (pc[a] # "off" /\ DeployAnsweredExists(a)) =>
              \A r \in RaceRoles : PostCalls(a, "DeleteRole", r) = {}
    /\ (AllDone /\ \E a \in AttemptIds : pc[a] # "off" /\ err[a] = NoErr) =>
          /\ storeEnvs[RaceKey] # NoEnv
          /\ \E a \in AttemptIds : err[a] = NoErr /\ storeEnvs[RaceKey] = marshal(env[a])

C36_Witness ==
    /\ \A a \in AttemptIds : Done(a) /\ err[a] = NoErr
    /\ CreatedStack(2) /\ cfnStacks[NameForEnv("demo", "test")]
    /\ \A r \in RaceRoles : ~iamRoles[r].exists
    /\ DeployAnsweredExists(1)
    /\ \A r \in RaceRoles : PreCalls(1, "DeleteRole", r) # {}
    /\ storeEnvs[RaceKey] = marshal(env[2])

\* The lookups of the duplicate check that were made for the pair Execute
\* will use and answered that there is no such environment.
FinalPairFoundAbsent ==
    {i \in DOMAIN cmd.lookups :
        /\ cmd.lookups[i].appName = cmd.vars.appName
        /\ cmd.lookups[i].name = cmd.vars.name
        /\ cmd.lookups[i].answer = "ErrNoSuchEnvironment"}
NameByFlagOnly == cmd.flags.vars.name # "" /\ cmd.flags.vars.appName = ""

\* C37 as stated: when Validate and Ask have succeeded, the duplicate check
\* has looked up the final (appName, name) and found it absent.
C37_Original == cmd.pc = "Execute" => FinalPairFoundAbsent # {}

\* C37, what the code does: when Validate and Ask have succeeded, the
\* duplicate check has made exactly one lookup, answered with "no such
\* environment", for the final name and for the application name as it was
\* at the time: by Validate, with the application name of the flags, when
\* the name was passed by flag, by askEnvName, with the final pair, when the
\* name was asked for.  So the final pair has been looked up unless the name
\* was passed by flag and the application was chosen during Ask; then the
\* lookup was made with an empty application name.
C37_DuplicateCheckPair ==
    cmd.pc = "Execute" =>
        /\ Len(cmd.lookups) = 1
        /\ cmd.lookups[1].answer = "ErrNoSuchEnvironment"
        /\ cmd.lookups[1].name = cmd.vars.name
        /\ cmd.lookups[1].appName =
              IF cmd.flags.vars.name # "" THEN cmd.flags.vars.appName ELSE cmd.vars.appName
        /\ cmd.vars.appName # "" /\ cmd.vars.name # ""
        /\ (FinalPairFoundAbsent = {}) <=> NameByFlagOnly

C37_Witness ==
    /\ cmd.pc = "Execute"
    /\ NameByFlagOnly
    /\ cmd.vars.appName = "demo" /\ cmd.vars.name = "test"
    /\ cmd.lookups = <<[appName |-> "", name |-> "test", answer |-> "ErrNoSuchEnvironment"]>>

Succeeded(a) == Done(a) /\ err[a] = NoErr

\* C38: in an attempt that returned nil, the record handed to the store
\* carries the production flag and the VPC customization that were handed to
\* the deployer (CustomConfig is NewCustomizeEnv of the deployer's
\* ImportVPCConfig and AdjustVPCConfig), the deployer got the URLs that the
\* attempt's upload returned, with --default-config both VPC configurations
\* are nil for the deployer and the record has no CustomConfig, and the
\* record the store holds, when this attempt wrote it, reads back the same.
C38_DeployerAndRecordAgree ==
    \A a \in AttemptIds :
        Succeeded(a) =>
            LET in == deployInput[a]
                stored == storeGetEnvironment(storeEnvs, o[a].appName, o[a].name, FALSE).env
            IN
            /\ in # NoInput /\ env[a] # NoEnv
            /\ env[a].Prod = in.Prod
            /\ env[a].CustomConfig = NewCustomizeEnv(in.ImportVPCConfig, in.AdjustVPCConfig)
            /\ env[a].CustomConfig # NoCustomConfig =>
                  /\ env[a].CustomConfig.ImportVPC = in.ImportVPCConfig
                  /\ env[a].CustomConfig.VPCConfig = in.AdjustVPCConfig
            /\ in.CustomResourcesURLs = urls[a]
            /\ urls[a] = UploadedURLs
            /\ Answer(a, "UploadEnvironmentCustomResources") = "ok"
            /\ o[a].defaultConfig =>
                  /\ in.ImportVPCConfig = NoVPC /\ in.AdjustVPCConfig = NoVPC
                  /\ env[a].CustomConfig = NoCustomConfig
            /\ storeEnvs[<<o[a].appName, o[a].name>>] # OldEnv =>
                  /\ stored.Prod = in.Prod
                  /\ stored.CustomConfig =
                        NewCustomizeEnv(in.ImportVPCConfig, in.AdjustVPCConfig)

C38_Witness ==
    \E a \in AttemptIds :
        /\ Succeeded(a)
        /\ deployInput[a].Prod
        /\ deployInput[a].AdjustVPCConfig # NoVPC
        /\ deployInput[a].ImportVPCConfig = NoVPC
        /\ env[a].CustomConfig.VPCConfig = deployInput[a].AdjustVPCConfig
        /\ storeEnvs[<<o[a].appName, o[a].name>>] = marshal(env[a])

\* The contacts of askImportResources with EC2 and with the VPC selector.
ImportContacts(op) == {i \in DOMAIN cmd.log : cmd.log[i].by = "askImportResources" /\
                                               cmd.log[i].op = op}
\* The VPC id is not empty and HasDNSSupport answered true for it, once and
\* after the id was known.
VPCVerified ==
    /\ cmd.vars.importVPC.ID # ""
    /\ \E i \in ImportContacts("HasDNSSupport") :
          /\ cmd.log[i].res = "yes"
          /\ ImportContacts("HasDNSSupport") = {i}
          /\ \A j \in ImportContacts("selVPC.VPC") : j < i /\ cmd.log[j].res = "ok"
    /\ (cmd.flags.vars.importVPC.ID = "") = (ImportContacts("selVPC.VPC") # {})
PublicSubnetsZeroOrTwo ==
    Len(cmd.vars.importVPC.PublicSubnetIDs) = 0 \/ Len(cmd.vars.importVPC.PublicSubnetIDs) >= 2

\* C39 as stated: whenever Validate and Ask succeed in import mode there are
\* at least 2 private subnet ids, 0 or at least 2 public subnet ids, and a
\* non-empty VPC id with DNS support verified.
C39_Original ==
    ImportResolved =>
        /\ Len(cmd.vars.importVPC.PrivateSubnetIDs) >= 2
        /\ PublicSubnetsZeroOrTwo
        /\ VPCVerified

\* C39, what the code does: on every path through flags and prompts that
\* resolves import mode the VPC id is not empty and its DNS support was
\* verified, there are 0 or at least 2 public subnet ids, and there are at
\* least 2 private subnet ids whenever the private subnets were selected at
\* the prompt or passed as a list that is not empty; a private list passed
\* empty but not nil resolves with no private subnet.
C39_ImportResolution ==
    ImportResolved =>
        /\ VPCVerified
        /\ PublicSubnetsZeroOrTwo
        /\ IF PrivateSubnetsPassedEmpty
           THEN cmd.vars.importVPC.PrivateSubnetIDs = <<>>
           ELSE Len(cmd.vars.importVPC.PrivateSubnetIDs) >= 2
        /\ "PrivateSubnetIDs" \notin cmd.flags.nonNil =>
              \E i \in ImportContacts("selVPC.Subnets private") : cmd.log[i].res = "ok"
        /\ "PublicSubnetIDs" \notin cmd.flags.nonNil =>
              ImportContacts("selVPC.Subnets public") # {}

\* A mixed path: the VPC is selected at the prompt, the private subnets come
\* from the flag and the public subnets from the prompt.
C39_Witness ==
    /\ ImportResolved
    /\ cmd.flags.vars.importVPC.ID = "" /\ cmd.vars.importVPC.ID = selectedVPC
    /\ "PrivateSubnetIDs" \in cmd.flags.nonNil
    /\ Len(cmd.vars.importVPC.PrivateSubnetIDs) >= 2
    /\ "PublicSubnetIDs" \notin cmd.flags.nonNil
    /\ Len(cmd.vars.importVPC.PublicSubnetIDs) >= 2
    /\ VPCVerified

\* ------------------------------------------------------------------------
\* Termination of Execute.
\* ------------------------------------------------------------------------
\* Every external call returns: a step of an attempt that can be taken is
\* taken.
\* Execute reads the VPC flags only to copy them into the deployer's input
\* and into the record; they are left at --default-config here.
LiveInit == Init /\ \A a \in AttemptIds : o[a].defaultConfig
LiveSpec == LiveInit /\ [][Next]_vars /\ WF_vars(Next)

AllReturned == \A a \in AttemptIds : pc[a] \in {"done", "off"}
\* The external calls of an attempt (the progress display left out).
CallIdx(a) == {i \in DOMAIN calls[a] : calls[a][i].op \notin {"prog.Start", "prog.Stop"}}
CleanupOps == {"ListRoleTags", "DeleteRole"}
\* The two terminal outcomes: nil after the record was handed to the store
\* as the last call, or an error without a successful CreateEnvironment.
OneOutcome(a) ==
    LET n == Len(calls[a]) IN
    /\ n > 0 /\ cleanup[a].phase = "none"
    /\ (err[a] = NoErr) <=> (calls[a][n] = Ev("CreateEnvironment", "ok"))
    /\ (err[a] # NoErr) <=> (Answer(a, "CreateEnvironment") # "ok")
\* The cleanup after a failed deployment is over when Execute returns.
CleanedUpBeforeReturn(a) ==
    DeployFailed(a) =>
        /\ err[a] = deployErr[a]
        /\ \A r \in envRoles(a) : PostCalls(a, "ListRoleTags", r) # {}
\* No call other than the role cleanup's is made twice.
StepsNotRepeated(a) ==
    LET cs == calls[a] IN
    \A i \in DOMAIN cs :
        cs[i].op \notin CleanupOps \cup {"prog.Start", "prog.Stop"} =>
            \A j \in 1..(i - 1) : cs[j].op # cs[i].op
\* One pass of the role cleanup makes each of its calls at most once per role:
\* the pass before the deployment, made when no stack exists, and the pass
\* after a failed deployment.
CleanupPassNotRepeated(a) ==
    LET cs == calls[a]
        d == DeployPos(a)
    IN
    \A i \in DOMAIN cs :
        cs[i].op \in CleanupOps =>
            /\ i # d
            /\ \A j \in 1..(i - 1) :
                  (cs[j].op = cs[i].op /\ cs[j].role = cs[i].role) => (j < d /\ d < i)
            /\ IF i < d THEN Answer(a, "Exists") = "false" ELSE DeployFailed(a)

\* C40 as stated: every attempt returns, with one of the two outcomes and
\* after its role cleanup, and no call is made twice within the attempt.
C40_Original ==
    \A a \in AttemptIds :
        /\ Done(a) => OneOutcome(a) /\ CleanedUpBeforeReturn(a)
        /\ \A i \in CallIdx(a) :
              \A j \in 1..(i - 1) :
                  ~(calls[a][j].op = calls[a][i].op /\ calls[a][j].role = calls[a][i].role)

C40_Safety ==
    \A a \in AttemptIds :
        /\ Done(a) => OneOutcome(a) /\ CleanedUpBeforeReturn(a)
        /\ StepsNotRepeated(a)
        /\ CleanupPassNotRepeated(a)

\* C40, amended: provided every external call returns, every attempt returns;
\* it returns nil with CreateEnvironment as its last call, answered without
\* error, or it returns an error without a record handed over successfully;
\* after a failed deployment both roles have been listed before the return;
\* no call of Execute's sequence is made twice, and each of the two passes of
\* the role cleanup (before the deployment when no stack exists, after a
\* failed deployment) lists and deletes each role at most once, so a role is
\* listed and deleted at most twice in an attempt.
C40_TerminatesWithOneOutcome == <>AllReturned /\ []C40_Safety

\* An attempt that returned the deployer's error after listing a role in both
\* passes of the cleanup.
C40_Witness ==
    \E a \in AttemptIds :
        /\ Done(a) /\ DeployFailed(a) /\ err[a] = deployErr[a]
        /\ \E r \in envRoles(a) :
              /\ PreCalls(a, "ListRoleTags", r) # {}
              /\ PostCalls(a, "ListRoleTags", r) # {}

====
